---- MODULE Spec2Model ----
(***************************************************************************)
(* Retrieval and indexing engine of rag_acore_mod_playerbots:              *)
(*   src/src/indexing/vector_store.py   VectorStore                        *)
(*   src/src/indexing/hybrid_search.py  HybridSearch                       *)
(*   src/src/pipeline.py                RAGPipeline.build_index/load_index *)
(*   src/scripts/build_index.py         IncrementalUpdater.update          *)
(*   src/src/cache.py                   RAGCache                           *)
(*                                                                         *)
(* A chunk's text is the sequence of its whitespace-separated words; an    *)
(* embedding is a point on a line (dimension 1), so that the squared       *)
(* Euclidean distance of IndexFlatL2 is (a - b)^2.  Scores are exact       *)
(* rationals held as integers scaled by SimScale.                          *)
(***************************************************************************)
EXTENDS Integers, Sequences, FiniteSets, TLC

VARIABLES
    index,            \* VectorStore.index: the vectors held by the flat L2 index
    chunks,           \* VectorStore.chunks
    metadata_index,   \* VectorStore.metadata_index
    dimension,        \* VectorStore.dimension, given at construction
    bm25_built,       \* HybridSearch.bm25 is not None
    tokenized_corpus, \* HybridSearch.tokenized_corpus, which bm25 scores
    disk,             \* the index directory: faiss.index, chunks.pkl,
                      \* metadata.json, info.json, bm25.pkl
    watermark,        \* data/last_update.txt
    cache,            \* RAGCache.responses_dir: one entry file per key
    last_set,         \* history: per query, the latest set_response since the last clear
    chunked,          \* the document last chunked: its metadata, the chunks
                      \* returned for it, and the list objects they refer to
    threads,          \* the calls running in threads of their own, each with
                      \* its arguments and the statement it has reached
    query_log,        \* RAGMonitor.queries_file: the records of queries.jsonl
    now,              \* time.time()
    repo,             \* the git history of the corpus: the times of the commits that
                      \* change a relevant file, and those an update has listed
    lastCall          \* the call in progress, its arguments and its outcome

store == <<index, chunks, metadata_index, dimension>>
lexical == <<bm25_built, tokenized_corpus>>
vars == <<index, chunks, metadata_index, dimension, bm25_built, tokenized_corpus,
          disk, watermark, cache, last_set, chunked, threads, query_log,
          now, lastCall, repo>>

(***************************************************************************)
(* Bounds of the model.                                                    *)
(***************************************************************************)
MaxChunks == 3        \* largest number of entries a list of the store may hold
MaxBatch == 2         \* longest batch handed to add_chunks

(***************************************************************************)
(* Values.                                                                 *)
(***************************************************************************)
Absent == "absent"                 \* a key that is not in a dict
Contents == {<<"Spell">>, <<"spell", "teleport">>}
Modules == {"x", "y"}
Coords == {0, 1, 2}                \* embedding values

\* metadata dicts: the 'module' key holds a module or is not in the dict
Metadata == [module : Modules \cup {Absent}]

\* chunk dicts handed to add_chunks: the 'embedding' and 'metadata' keys may be
\* missing (has_embedding, has_metadata say whether the key is in the dict)
InputChunks ==
    {c \in [content : Contents,
            has_embedding : BOOLEAN, embedding : Coords,
            has_metadata : BOOLEAN, metadata : Metadata] :
        /\ ~c.has_embedding => c.embedding = 0
        /\ ~c.has_metadata => c.metadata = [module |-> Absent]}

\* chunk dicts as document_loader + embedding_generator produce them
IsWellFormed(c) == c.has_embedding /\ c.has_metadata

SeqsUpTo(S, n) == UNION {[1..m -> S] : m \in 0..n}

NoCall == [op |-> "none"]

\* the threads that make calls at the same time, and a thread making none
Threads == {1, 2}
NoThread == [pc |-> "idle"]

(***************************************************************************)
(* The caller: one call at a time; Return hands the outcome to the caller. *)
(***************************************************************************)
Idle == lastCall.op = "none"

Return ==
    /\ ~Idle
    /\ lastCall' = NoCall
    /\ UNCHANGED <<repo, query_log, threads, store, lexical, disk, watermark, cache, chunked, last_set, now>>

(***************************************************************************)
(* VectorStore.add_chunks                                                  *)
(***************************************************************************)
\* chunk.copy() followed by pop('embedding', None)
StripEmbedding(c) == [content |-> c.content, metadata |-> c.metadata]

\* The first position of the batch whose chunk has no 'metadata' key, or 0.
FirstWithoutMetadata(batch) ==
    IF \E i \in DOMAIN batch : ~batch[i].has_metadata
    THEN CHOOSE i \in DOMAIN batch :
            /\ ~batch[i].has_metadata
            /\ \A j \in DOMAIN batch : ~batch[j].has_metadata => i <= j
    ELSE 0

\* lines 29-31: the list comprehension reads chunk['embedding'] of every chunk
\* (KeyError when one is missing); line 33: faiss rejects an array that is not
\* two-dimensional, which is what an empty batch gives.
EmbeddingsRaise(batch) ==
    \/ \E i \in DOMAIN batch : ~batch[i].has_embedding
    \/ Len(batch) = 0

\* a faulty variant: embeddings are added to the index one chunk at a time, up to the
\* first chunk that has none.
AddedVectorsEager(batch) ==
    LET bad == {i \in DOMAIN batch : ~batch[i].has_embedding}
        n == IF bad = {} THEN Len(batch)
             ELSE (CHOOSE i \in bad : \A j \in bad : i <= j) - 1
    IN [i \in 1..n |-> batch[i].embedding]

\* line 33: self.index.add(embeddings), the whole batch or nothing
AddedVectors(batch) ==
    IF EmbeddingsRaise(batch) THEN <<>>
    ELSE [i \in 1..Len(batch) |-> batch[i].embedding]

\* lines 35-39: chunks.append(chunk_copy) runs before chunk['metadata'] is read
AddedChunks(batch) ==
    IF EmbeddingsRaise(batch) THEN <<>>
    ELSE LET bad == FirstWithoutMetadata(batch)
             n == IF bad = 0 THEN Len(batch) ELSE bad
         IN [i \in 1..n |-> StripEmbedding(batch[i])]

AddedMetadata(batch) ==
    IF EmbeddingsRaise(batch) THEN <<>>
    ELSE LET bad == FirstWithoutMetadata(batch)
             n == IF bad = 0 THEN Len(batch) ELSE bad - 1
         IN [i \in 1..n |-> batch[i].metadata]

AddRaises(batch) == EmbeddingsRaise(batch) \/ FirstWithoutMetadata(batch) # 0

add_chunks(batch) ==
    /\ Idle
    /\ Len(index) + Len(batch) <= MaxChunks
    /\ index' = index \o AddedVectors(batch)
    /\ chunks' = chunks \o AddedChunks(batch)
    /\ metadata_index' = metadata_index \o AddedMetadata(batch)
    /\ dimension' = dimension
    /\ lastCall' = [op |-> "add_chunks", batch |-> batch,
                    raised |-> AddRaises(batch)]
    /\ UNCHANGED <<repo, query_log, threads, lexical, disk, watermark, cache, chunked, last_set, now>>

(***************************************************************************)
(* Python list indexing: list[i] with i >= 0 counts from the front, with   *)
(* i < 0 from the back; out of range raises IndexError.                    *)
(***************************************************************************)
PyInRange(seq, i) == -Len(seq) <= i /\ i < Len(seq)
PyGet(seq, i) == IF i < 0 THEN seq[Len(seq) + i + 1] ELSE seq[i + 1]

(***************************************************************************)
(* faiss.IndexFlatL2.search(query, search_k): search_k (label, distance)   *)
(* pairs by ascending squared distance, labels counted from 0; when the    *)
(* index holds fewer than search_k vectors the remaining slots carry label *)
(* -1 and the largest float32 as distance (pad).                           *)
(***************************************************************************)
SquaredDistance(a, b) == (a - b) * (a - b)

FaissBefore(vectors, q, j, i) ==
    \/ SquaredDistance(vectors[j], q) < SquaredDistance(vectors[i], q)
    \/ SquaredDistance(vectors[j], q) = SquaredDistance(vectors[i], q) /\ j < i

FaissSearch(vectors, q, search_k) ==
    LET n == Len(vectors)
        rank == [i \in 1..n |->
                    1 + Cardinality({j \in 1..n : FaissBefore(vectors, q, j, i)})]
        at == [r \in 1..n |-> CHOOSE i \in 1..n : rank[i] = r]
    IN [r \in 1..search_k |->
          IF r <= n
          THEN [idx |-> at[r] - 1,
                distance |-> SquaredDistance(vectors[at[r]], q), pad |-> FALSE]
          ELSE [idx |-> -1, distance |-> 0, pad |-> TRUE]]

(***************************************************************************)
(* Scores.  A similarity 1/(1+d) is held in units of 1/SimScale; the       *)
(* similarity of a pad slot, 1/(1+FLT_MAX), is positive and below every    *)
(* other positive score: it is held as 0 with pad = TRUE.                  *)
(***************************************************************************)
SimScale == 4 * 5
Similarity(distance) == SimScale \div (1 + distance)

(***************************************************************************)
(* VectorStore._matches_filters, for filters = {'module': f}; f = Absent   *)
(* stands for filters = None.                                              *)
(***************************************************************************)
\* a faulty variant: a missing key is a mismatch and equality is tested the wrong way round
MatchesFiltersInverted(metadata, f) ==
    metadata.module # Absent /\ metadata.module # f

\* lines 82-96: a key that is not in the metadata is skipped, a string value
\* must be equal
MatchesFilters(metadata, f) ==
    IF metadata.module = Absent THEN TRUE
    ELSE metadata.module = f

(***************************************************************************)
(* VectorStore.search                                                      *)
(***************************************************************************)
SearchK(k, f) == IF f # Absent THEN k * 3 ELSE k

RECURSIVE SearchLoop(_, _, _, _, _)
\* lines 58-76, from slot r of the faiss result on, with `results` collected
SearchLoop(found, r, results, k, f) ==
    IF r > Len(found) THEN [raised |-> FALSE, results |-> results]
    ELSE LET idx == found[r].idx IN
         IF idx >= Len(chunks)
         THEN SearchLoop(found, r + 1, results, k, f)
         ELSE IF ~PyInRange(chunks, idx) \/ ~PyInRange(metadata_index, idx)
         THEN [raised |-> TRUE, results |-> <<>>]
         ELSE LET metadata == PyGet(metadata_index, idx)
                  result == [chunk |-> PyGet(chunks, idx),
                             metadata |-> metadata,
                             score |-> found[r].distance,
                             similarity |-> IF found[r].pad THEN 0
                                            ELSE Similarity(found[r].distance),
                             pad |-> found[r].pad]
              IN IF f # Absent /\ ~MatchesFilters(metadata, f)
                 THEN SearchLoop(found, r + 1, results, k, f)
                 ELSE IF Len(results) + 1 >= k
                 THEN [raised |-> FALSE, results |-> Append(results, result)]
                 ELSE SearchLoop(found, r + 1, Append(results, result), k, f)

VectorSearch(q, k, f) ==
    SearchLoop(FaissSearch(index, q, SearchK(k, f)), 1, <<>>, k, f)

(***************************************************************************)
(* HybridSearch.build_bm25_index: doc.lower().split() of every chunk       *)
(***************************************************************************)
LowerWord(w) == IF w = "Spell" THEN "spell" ELSE w

\* line 26: doc.lower().split()
Tokenize(content) == [i \in DOMAIN content |-> LowerWord(content[i])]

TokenLists == {Tokenize(c) : c \in Contents}

\* lines 25-28
BuiltCorpus(chunkList) == [i \in DOMAIN chunkList |-> Tokenize(chunkList[i].content)]

(***************************************************************************)
(* BM25Okapi.get_scores(query): one score per entry of the tokenized       *)
(* corpus, a function of the entry's tokens; `bm` is that function for the *)
(* query at hand.  Raw scores are integers; normalized scores are held in  *)
(* units of 1/SimScale.                                                    *)
(***************************************************************************)
ScoreVals == {-1, 0, 1, SimScale}
ScoreProfiles ==
    {bm \in [TokenLists -> ScoreVals] :
        (\E t \in TokenLists : bm[t] > 0) => \E t \in TokenLists : bm[t] = SimScale}

Bm25Scores(bm) == [i \in DOMAIN tokenized_corpus |-> bm[tokenized_corpus[i]]]

SeqMax(s) == CHOOSE m \in {s[i] : i \in DOMAIN s} : \A i \in DOMAIN s : s[i] <= m

\* lines 94-97: divided by the maximum when that is positive, else left as is
Normalized(scores) ==
    IF SeqMax(scores) > 0
    THEN [i \in DOMAIN scores |-> (scores[i] * SimScale) \div SeqMax(scores)]
    ELSE [i \in DOMAIN scores |-> scores[i] * SimScale]

\* a faulty variant of the floor: no lexical score passes it
NoiseFloorHigh == 1 * SimScale

\* line 113: bm25_score > 0.1, in units of 1/SimScale
NoiseFloor == SimScale \div 10

(***************************************************************************)
(* alpha is a2/2 for a2 in 0..2.  A combined score                         *)
(* alpha * similarity + (1 - alpha) * bm25 is held in units of             *)
(* 1/(2*SimScale); the contribution of a pad slot's similarity shows only  *)
(* when the rest of the sum is 0, as in floating point.                    *)
(***************************************************************************)
AlphaHalves == {0, 1, 2}

\* the total order of the floating-point scores: value first, then the pad
\* similarity that a zero sum keeps
ScoreKey(e) == 2 * e.score + (IF e.tiny /\ e.score = 0 THEN 1 ELSE 0)

\* lines 142-147: the first stored chunk with the same content (counted from 0),
\* or -1 for None
FindChunkIndex(chunk) ==
    IF \E i \in DOMAIN chunks : chunks[i].content = chunk.content
    THEN (CHOOSE i \in DOMAIN chunks :
            /\ chunks[i].content = chunk.content
            /\ \A j \in DOMAIN chunks : chunks[j].content = chunk.content => i <= j) - 1
    ELSE -1

\* dict assignment table[key] = entry: a new key goes last, a key already in
\* the dict keeps its place and takes the new value
DictSet(table, entry) ==
    IF \E i \in DOMAIN table : table[i].idx = entry.idx
    THEN [i \in DOMAIN table |-> IF table[i].idx = entry.idx THEN entry ELSE table[i]]
    ELSE Append(table, entry)

HasKey(table, idx) == \E i \in DOMAIN table : table[i].idx = idx

RECURSIVE SeedTable(_, _, _, _)
\* lines 101-107: one entry per semantic result, keyed by FindChunkIndex
SeedTable(semantic, r, table, a2) ==
    IF r > Len(semantic) THEN table
    ELSE LET chunk_idx == FindChunkIndex(semantic[r].chunk) IN
         IF chunk_idx = -1 THEN SeedTable(semantic, r + 1, table, a2)
         ELSE SeedTable(semantic, r + 1,
                DictSet(table, [idx |-> chunk_idx,
                                score |-> a2 * semantic[r].similarity,
                                tiny |-> a2 > 0 /\ semantic[r].pad,
                                result |-> semantic[r]]), a2)

RECURSIVE LexicalPass(_, _, _, _, _)
\* lines 109-126, from corpus position idx (counted from 0) on
LexicalPass(norm, idx, table, a2, f) ==
    IF idx >= Len(norm) THEN [raised |-> FALSE, table |-> table]
    ELSE IF HasKey(table, idx)
    THEN LexicalPass(norm, idx + 1,
            [i \in DOMAIN table |->
                IF table[i].idx = idx
                THEN [table[i] EXCEPT !.score = @ + (2 - a2) * norm[idx + 1]]
                ELSE table[i]], a2, f)
    ELSE IF norm[idx + 1] > NoiseFloor
    THEN IF ~PyInRange(metadata_index, idx) THEN [raised |-> TRUE, table |-> <<>>]
         ELSE IF f # Absent /\ ~MatchesFilters(PyGet(metadata_index, idx), f)
         THEN LexicalPass(norm, idx + 1, table, a2, f)
         ELSE IF ~PyInRange(chunks, idx) THEN [raised |-> TRUE, table |-> <<>>]
         ELSE LexicalPass(norm, idx + 1,
                Append(table, [idx |-> idx,
                               score |-> (2 - a2) * norm[idx + 1],
                               tiny |-> FALSE,
                               result |-> [chunk |-> PyGet(chunks, idx),
                                           metadata |-> PyGet(metadata_index, idx),
                                           score |-> 0, similarity |-> 0,
                                           pad |-> FALSE]]), a2, f)
    ELSE LexicalPass(norm, idx + 1, table, a2, f)

\* a faulty variant: ascending sort reversed afterwards, which turns ties round
SortedByScoreReversed(table) ==
    LET n == Len(table)
        before(j, i) == \/ ScoreKey(table[j]) > ScoreKey(table[i])
                        \/ ScoreKey(table[j]) = ScoreKey(table[i]) /\ j > i
        rank == [i \in 1..n |-> 1 + Cardinality({j \in 1..n : before(j, i)})]
    IN [r \in 1..n |-> table[CHOOSE i \in 1..n : rank[i] = r]]

\* lines 128-132: sorted(..., key=score, reverse=True) is stable: entries with
\* equal scores keep the order of the dict
SortedByScore(table) ==
    LET n == Len(table)
        before(j, i) == \/ ScoreKey(table[j]) > ScoreKey(table[i])
                        \/ ScoreKey(table[j]) = ScoreKey(table[i]) /\ j < i
        rank == [i \in 1..n |-> 1 + Cardinality({j \in 1..n : before(j, i)})]
    IN [r \in 1..n |-> table[CHOOSE i \in 1..n : rank[i] = r]]

\* lines 134-138: result.copy() with 'combined_score' set
FinalResult(e) ==
    [chunk |-> e.result.chunk, metadata |-> e.result.metadata,
     score |-> e.result.score, similarity |-> e.result.similarity,
     pad |-> e.result.pad, combined_score |-> ScoreKey(e)]

\* the fused table of _combine_results before it is sorted (lines 84-126)
CombineTable(semantic, scores, a2, f) ==
    LexicalPass(Normalized(scores), 0, SeedTable(semantic, 1, <<>>, a2), a2, f)

Take(s, k) == [i \in 1..(IF Len(s) < k THEN Len(s) ELSE k) |-> s[i]]

(***************************************************************************)
(* HybridSearch.search                                                     *)
(***************************************************************************)
HybridSearch(q, bm, k, a2, f) ==
    IF ~bm25_built
    THEN LET v == VectorSearch(q, k, f)
         IN [raised |-> v.raised, results |-> v.results, table |-> <<>>,
             semantic |-> v.results]
    ELSE LET v == VectorSearch(q, k * 2, f) IN
         IF v.raised \/ Len(tokenized_corpus) = 0
         THEN [raised |-> TRUE, results |-> <<>>, table |-> <<>>, semantic |-> <<>>]
         ELSE LET t == CombineTable(v.results, Bm25Scores(bm), a2, f) IN
              IF t.raised
              THEN [raised |-> TRUE, results |-> <<>>, table |-> <<>>,
                    semantic |-> v.results]
              ELSE LET sorted == SortedByScore(t.table)
                   IN [raised |-> FALSE,
                       results |-> Take([i \in DOMAIN sorted |-> FinalResult(sorted[i])], k),
                       table |-> t.table,
                       semantic |-> v.results]

\* batches of a reduced chunk universe, each chunk with or without its keys
StoreInputs ==
    {c \in InputChunks : c.content = <<"Spell">> /\ c.metadata.module # "y"}

AddChunksAny == Idle /\ \E batch \in SeqsUpTo(StoreInputs, MaxBatch) : add_chunks(batch)

(***************************************************************************)
(* The index directory.  Each artifact is missing, readable ("ok") or      *)
(* unreadable ("corrupt").                                                 *)
(***************************************************************************)
Missing == [status |-> "missing", data |-> <<>>]
Corrupt == [status |-> "corrupt", data |-> <<>>]
File(data) == [status |-> "ok", data |-> data]

Artifacts == <<"faiss", "chunks", "metadata", "info", "bm25">>
EmptyDisk == [a \in {Artifacts[i] : i \in DOMAIN Artifacts} |-> Missing]

\* A write that fails: at = 0 is no failure; otherwise artifact number `at`
\* fails, before anything of it is written ("open") or part-way ("write").
NoFailure == [at |-> 0, mode |-> "open"]
Failures == {NoFailure} \cup [at : DOMAIN Artifacts, mode : {"open", "write"}]

\* vector_store.py line 19: the default of the constructor and of config.py
DefaultDimension == 384
Dimensions == {DefaultDimension, 2 * DefaultDimension}

\* vector_store.py lines 112-116: the manifest
Info(ch) == [dimension |-> dimension, num_chunks |-> Len(ch)]

\* vector_store.py lines 98-118 followed by the pickle.dump of the bm25 bundle
\* (pipeline.py lines 93-102, build_index.py lines 79-88), in that order
Persisted(old, ix, ch, md, tc, fail) ==
    LET new == [faiss |-> File(ix), chunks |-> File(ch), metadata |-> File(md),
                info |-> File(Info(ch)), bm25 |-> File(tc)]
    IN [a \in DOMAIN old |->
          LET i == CHOOSE j \in DOMAIN Artifacts : Artifacts[j] = a IN
          IF fail.at = 0 \/ i < fail.at THEN new[a]
          ELSE IF i = fail.at /\ fail.mode = "write" THEN Corrupt
          ELSE old[a]]

\* EmbeddingGenerator.generate_embeddings: the embedding of a chunk is the
\* model's encoding of "Module: <module> ... <content>", a fixed function of
\* the chunk's module and content
Encode(content, module) ==
    IF content = <<"Spell">>
    THEN (IF module = "x" THEN 0 ELSE 2)
    ELSE (IF module = "x" THEN 1 ELSE 2)

\* chunk dicts as document_loader + embedding_generator produce them: every
\* key is there (metadata_extractor.py always sets 'module')
ProcessedChunks ==
    {c \in InputChunks :
        /\ IsWellFormed(c)
        /\ c.metadata.module # Absent
        /\ c.embedding = Encode(c.content, c.metadata.module)}

WellFormedBatches == {b \in SeqsUpTo(ProcessedChunks, MaxBatch) : Len(b) > 0}

(***************************************************************************)
(* RAGPipeline.build_index.  `batch` is what loading, chunking and         *)
(* embedding the raw documents gives; `fail` is where persisting fails.    *)
(***************************************************************************)
build_index(batch, fail) ==
    /\ Idle
    /\ Len(index) + Len(batch) <= MaxChunks
    /\ IF Len(batch) = 0
       THEN \* pipeline.py lines 63-73: no documents or no chunks
            /\ lastCall' = [op |-> "build_index", raised |-> FALSE, ret |-> FALSE]
            /\ UNCHANGED <<repo, query_log, threads, store, lexical, disk>>
       ELSE \* pipeline.py lines 84-102
            /\ index' = index \o AddedVectors(batch)
            /\ chunks' = chunks \o AddedChunks(batch)
            /\ metadata_index' = metadata_index \o AddedMetadata(batch)
            /\ dimension' = dimension
            /\ bm25_built' = TRUE
            /\ tokenized_corpus' = BuiltCorpus(chunks')
            /\ disk' = Persisted(disk, index', chunks', metadata_index',
                                 tokenized_corpus', fail)
            /\ lastCall' = [op |-> "build_index", raised |-> fail.at # 0,
                            ret |-> fail.at = 0]
    /\ UNCHANGED <<repo, query_log, threads, watermark, cache, chunked, last_set, now>>

BuildIndexOk == Idle /\ \E batch \in WellFormedBatches : build_index(batch, NoFailure)

(***************************************************************************)
(* IncrementalUpdater.update, called as main() of build_index.py calls it: *)
(* after load_index returned True.  `changed` is what enumerating and      *)
(* loading the modified files gives, `batch` their chunks with embeddings. *)
(***************************************************************************)
\* build_index.py lines 102-133 and 51-63:
\*   "none"         git log names no relevant file
\*   "git_error"    git exits with an error (CalledProcessError, caught)
\*   "git_missing"  git cannot be run (another exception, not caught)
\*   "unloadable"   files are named but none gives a document
\*   "loaded"       documents were loaded
ChangeOutcomes == {"none", "git_error", "git_missing", "unloadable", "loaded"}

\* a faulty variant: an empty list of modified files is processed like any other
NoModifiedFilesIgnored(changed) == FALSE

\* build_index.py lines 37-41 with 131-133: the list of modified files is empty
NoModifiedFiles(changed) == changed \in {"none", "git_error"}

\* a faulty variant: the update time is saved before the indexes are persisted
SavedUpdateTimeFirst(old, fail) == [exists |-> TRUE, time |-> now]

\* build_index.py lines 80-90 with 135-138: _save_update_time is the last
\* statement, reached when nothing before it raised
SavedUpdateTime(old, fail) ==
    IF fail.at = 0 THEN [exists |-> TRUE, time |-> now] ELSE old

\* a faulty variant: the lists of the store are started afresh with what is added
ExtendedAfresh(list, added) == added

\* vector_store.py lines 33-39, called at build_index.py line 74: index.add
\* and list.append put what is added behind what the store holds
Extended(list, added) == list \o added

update(changed, batch, fail) ==
    /\ Idle
    /\ bm25_built
    /\ Len(index) + Len(batch) <= MaxChunks
    /\ IF NoModifiedFiles(changed) \/ changed = "unloadable"
       THEN \* build_index.py lines 39-41 and 61-63: nothing to do
            /\ lastCall' = [op |-> "update", changed |-> changed,
                            raised |-> FALSE, ret |-> TRUE]
            /\ UNCHANGED <<repo, query_log, threads, store, lexical, disk, watermark>>
       ELSE IF changed = "git_missing"
       THEN \* line 37: the exception of subprocess.run leaves update
            /\ lastCall' = [op |-> "update", changed |-> changed,
                            raised |-> TRUE, ret |-> FALSE]
            /\ UNCHANGED <<repo, query_log, threads, store, lexical, disk, watermark>>
       ELSE IF AddRaises(batch)
       THEN \* line 74: add_chunks raises
            /\ index' = Extended(index, AddedVectors(batch))
            /\ chunks' = Extended(chunks, AddedChunks(batch))
            /\ metadata_index' = Extended(metadata_index, AddedMetadata(batch))
            /\ dimension' = dimension
            /\ lastCall' = [op |-> "update", changed |-> changed,
                            raised |-> TRUE, ret |-> FALSE]
            /\ UNCHANGED <<repo, query_log, threads, lexical, disk, watermark>>
       ELSE \* lines 74-90
            /\ index' = Extended(index, AddedVectors(batch))
            /\ chunks' = Extended(chunks, AddedChunks(batch))
            /\ metadata_index' = Extended(metadata_index, AddedMetadata(batch))
            /\ dimension' = dimension
            /\ bm25_built' = TRUE
            /\ tokenized_corpus' = BuiltCorpus(chunks')
            /\ disk' = Persisted(disk, index', chunks', metadata_index',
                                 tokenized_corpus', fail)
            /\ watermark' = SavedUpdateTime(watermark, fail)
            /\ lastCall' = [op |-> "update", changed |-> changed,
                            raised |-> fail.at # 0, ret |-> fail.at = 0]
    /\ UNCHANGED <<repo, query_log, threads, cache, chunked, last_set, now>>

(***************************************************************************)
(* RAGPipeline.load_index (pipeline.py lines 125-165) with VectorStore.load*)
(* (vector_store.py lines 122-134): each artifact is assigned as soon as   *)
(* it is read; info.json is not read.                                      *)
(***************************************************************************)
Readable(a) == disk[a].status = "ok"

load_index ==
    /\ Idle
    /\ index' = IF Readable("faiss") THEN disk["faiss"].data ELSE index
    /\ chunks' = IF Readable("faiss") /\ Readable("chunks")
                 THEN disk["chunks"].data ELSE chunks
    /\ metadata_index' =
          IF Readable("faiss") /\ Readable("chunks") /\ Readable("metadata")
          THEN disk["metadata"].data ELSE metadata_index
    /\ dimension' = dimension
    /\ LET loaded == Readable("faiss") /\ Readable("chunks") /\ Readable("metadata")
           rebuilt == loaded /\ disk["bm25"].status = "missing" /\ Len(chunks') > 0
           read == loaded /\ Readable("bm25")
       IN /\ bm25_built' = IF rebuilt \/ read THEN TRUE
                           ELSE IF loaded /\ disk["bm25"].status = "missing" THEN FALSE
                           ELSE bm25_built
          /\ tokenized_corpus' =
                IF rebuilt THEN BuiltCorpus(chunks')
                ELSE IF read THEN disk["bm25"].data
                ELSE IF loaded /\ disk["bm25"].status = "missing" THEN <<>>
                ELSE tokenized_corpus
          /\ lastCall' = [op |-> "load_index", raised |-> FALSE,
                          ret |-> rebuilt \/ read]
    /\ UNCHANGED <<repo, query_log, threads, disk, watermark, cache, chunked, last_set, now>>

(***************************************************************************)
(* The environment of the index directory: the process ends and a new one  *)
(* starts with a fresh RAGPipeline; an artifact is deleted or damaged.     *)
(***************************************************************************)
Restart ==
    /\ Idle
    /\ Len(index) + Len(chunks) + Len(metadata_index) > 0
    /\ index' = <<>>
    /\ chunks' = <<>>
    /\ metadata_index' = <<>>
    /\ dimension' = dimension
    /\ bm25_built' = FALSE
    /\ tokenized_corpus' = <<>>
    /\ UNCHANGED <<repo, query_log, threads, disk, watermark, cache, chunked, last_set, now, lastCall>>

\* the directory holds nothing, or exactly what one complete persist wrote
DiskSettled ==
    \/ disk = EmptyDisk
    \/ /\ \A a \in DOMAIN disk : Readable(a)
       /\ Len(disk["faiss"].data) = Len(disk["chunks"].data)
       /\ Len(disk["metadata"].data) = Len(disk["chunks"].data)
       /\ Len(disk["bm25"].data) = Len(disk["chunks"].data)
       /\ disk["info"].data = Info(disk["chunks"].data)

Damage ==
    /\ Idle
    /\ \A a \in DOMAIN disk : Readable(a)
    /\ DiskSettled
    /\ \E a \in DOMAIN disk, d \in {Missing, Corrupt} :
          disk' = [disk EXCEPT ![a] = d]
    /\ UNCHANGED <<repo, query_log, threads, store, lexical, watermark, cache, chunked, last_set, now, lastCall>>

\* the chunks of the index runs: one text of one module
IndexBatches ==
    {b \in WellFormedBatches :
        \A i \in DOMAIN b : b[i].content = <<"Spell">> /\ b[i].metadata.module = "x"}

\* one fault at a time: a write fails only over a settled directory
BuildIndexAny ==
    Idle /\ \E batch \in IndexBatches \cup {<<>>}, fail \in Failures :
                /\ (fail # NoFailure => DiskSettled)
                /\ build_index(batch, fail)

UpdateAny ==
    Idle /\ \E changed \in ChangeOutcomes, batch \in IndexBatches \cup {<<>>},
               fail \in Failures :
                /\ (changed # "loaded" => Len(batch) = 0)
                /\ (Len(batch) = 0 => fail = NoFailure)
                /\ (fail # NoFailure => DiskSettled)
                /\ update(changed, batch, fail)

(***************************************************************************)
(* VectorStore.save, VectorStore.load and VectorStore.get_statistics on    *)
(* their own, with stores constructed for any dimension.                   *)
(***************************************************************************)
\* vector_store.py lines 98-120.  The values the chunks and the metadata hold
\* are ones that pickle and json write and read back unchanged.
save ==
    /\ Idle
    /\ disk' = [disk EXCEPT !["faiss"] = File(index),
                            !["chunks"] = File(chunks),
                            !["metadata"] = File(metadata_index),
                            !["info"] = File(Info(chunks))]
    /\ lastCall' = [op |-> "save", raised |-> FALSE]
    /\ UNCHANGED <<repo, query_log, threads, store, lexical, watermark, cache, last_set, chunked, now>>

\* vector_store.py lines 122-134: info.json is not opened, self.dimension is
\* not assigned
load ==
    /\ Idle
    /\ index' = IF Readable("faiss") THEN disk["faiss"].data ELSE index
    /\ chunks' = IF Readable("faiss") /\ Readable("chunks")
                 THEN disk["chunks"].data ELSE chunks
    /\ metadata_index' =
          IF Readable("faiss") /\ Readable("chunks") /\ Readable("metadata")
          THEN disk["metadata"].data ELSE metadata_index
    /\ dimension' = dimension
    /\ lastCall' = [op |-> "load",
                    raised |-> ~(Readable("faiss") /\ Readable("chunks")
                                    /\ Readable("metadata"))]
    /\ UNCHANGED <<repo, query_log, threads, lexical, disk, watermark, cache, last_set, chunked, now>>

\* vector_store.py lines 19-23: VectorStore(dimension)
Construct ==
    /\ Idle
    /\ \E d \in Dimensions : dimension' = d
    /\ index' = <<>>
    /\ chunks' = <<>>
    /\ metadata_index' = <<>>
    /\ UNCHANGED <<repo, query_log, threads, lexical, disk, watermark, cache, last_set, chunked, now, lastCall>>

\* a dict of counts: the keys are the values that occur
CountBy(values) ==
    [v \in {values[i] : i \in DOMAIN values} |->
        Cardinality({i \in DOMAIN values : values[i] = v})]

\* vector_store.py lines 136-161; the metadata of the model holds neither
\* 'category' nor 'type', which the code counts as 'unknown'
get_statistics(ch, md, dim) ==
    [total_chunks |-> Len(ch),
     dimension |-> dim,
     by_category |-> CountBy([i \in DOMAIN md |-> "unknown"]),
     by_module |-> CountBy([i \in DOMAIN md |->
                        IF md[i].module = Absent THEN "unknown" ELSE md[i].module]),
     by_type |-> CountBy([i \in DOMAIN md |-> "unknown"])]

AddProcessedChunks == Idle /\ \E batch \in WellFormedBatches : add_chunks(batch)

(***************************************************************************)
(* VectorStore.add_chunks running in a thread of its own, statement by     *)
(* statement, while the caller searches.                                   *)
(***************************************************************************)
AddThread == 1

\* a faulty variant: the metadata of a chunk is not appended
MetadataSkipped(md, chunk) == md

\* vector_store.py line 39
MetadataAppended(md, chunk) == Append(md, chunk.metadata)

\* vector_store.py lines 29-33: the embeddings are collected and added to the
\* index in one call.  A thread whose call has raised makes no further call.
AddChunksStart ==
    \E batch \in SeqsUpTo(StoreInputs, MaxBatch) :
        /\ threads[AddThread].pc = "idle"
        /\ Len(index) + Len(batch) <= MaxChunks
        /\ index' = index \o AddedVectors(batch)
        /\ threads' = [threads EXCEPT ![AddThread] =
                          IF EmbeddingsRaise(batch)
                          THEN [pc |-> "raised", batch |-> batch, i |-> 0]
                          ELSE [pc |-> "copy", batch |-> batch, i |-> 1]]
        /\ UNCHANGED <<repo, query_log, chunks, metadata_index, dimension, lexical, disk, watermark,
                       cache, last_set, chunked, now, lastCall>>

\* vector_store.py lines 36-38, for the chunk at position i of the batch
AddChunksAppendChunk ==
    LET call == threads[AddThread]
    IN /\ call.pc = "copy"
       /\ chunks' = Append(chunks, StripEmbedding(call.batch[call.i]))
       /\ threads' = [threads EXCEPT ![AddThread].pc = "metadata"]
       /\ UNCHANGED <<repo, query_log, index, metadata_index, dimension, lexical, disk, watermark,
                      cache, last_set, chunked, now, lastCall>>

\* vector_store.py line 39, for the chunk at position i: chunk['metadata']
\* raises KeyError when the key is missing; after the last chunk the call
\* returns
AddChunksAppendMetadata ==
    LET call == threads[AddThread]
        chunk == call.batch[call.i]
    IN /\ call.pc = "metadata"
       /\ metadata_index' = IF chunk.has_metadata
                            THEN MetadataAppended(metadata_index, chunk)
                            ELSE metadata_index
       /\ threads' = [threads EXCEPT ![AddThread] =
                         IF ~chunk.has_metadata THEN [call EXCEPT !.pc = "raised"]
                         ELSE IF call.i = Len(call.batch) THEN NoThread
                         ELSE [call EXCEPT !.pc = "copy", !.i = call.i + 1]]
       /\ UNCHANGED <<repo, query_log, index, chunks, dimension, lexical, disk, watermark,
                      cache, last_set, chunked, now, lastCall>>

\* vector_store.py lines 54-66: what a search reads of the three lists, and
\* where the add_chunks call of the other thread stands at that moment
SearchObserves ==
    /\ Idle
    /\ lastCall' = [op |-> "search",
                    add_chunks |-> threads[AddThread].pc,
                    ntotal |-> Len(index),
                    len_chunks |-> Len(chunks),
                    len_metadata |-> Len(metadata_index)]
    /\ UNCHANGED <<repo, query_log, threads, store, lexical, disk, watermark, cache, last_set, chunked, now>>

(***************************************************************************)
(* RAGCache (cache.py).  One entry file per key; the clock `now` is        *)
(* time.time() counted in whole days, so ttl_seconds is ttl_days.          *)
(***************************************************************************)
ttl_days == 2
MaxNow == 4

CacheQueries == {"q1", "q2"}
Responses == {"", "r1"}
None == "None"

\* a faulty variant of _hash_query: every query gets the same key
HashCollides(query) == "h1"

\* cache.py lines 119-121: md5 of the query text, one key per modelled query
_hash_query(query) == IF query = "q1" THEN "h1" ELSE "h2"

CacheKeys == {_hash_query(q) : q \in CacheQueries}

ttl_seconds == ttl_days

\* an entry file: `readable` is FALSE when it cannot be opened or is no JSON
\* object; has_timestamp and has_response say which keys the object holds
NoEntry == [exists |-> FALSE, readable |-> FALSE, has_timestamp |-> FALSE,
            has_response |-> FALSE, query |-> None, response |-> None,
            timestamp |-> 0]
NotSet == [set |-> FALSE, response |-> None, time |-> 0]

\* a faulty variant of the expiry test: an entry of age ttl is already expired
ExpiredAtTtl(entry, t) == t - entry.timestamp >= ttl_seconds

\* cache.py lines 41 and 85
Expired(entry, t) == t - entry.timestamp > ttl_seconds

\* cache.py lines 53-71; `wrote` is FALSE when opening the file for writing
\* raises, which set_response logs and swallows
set_response(query, response, wrote) ==
    /\ Idle
    /\ cache' = IF wrote
                THEN [cache EXCEPT ![_hash_query(query)] =
                        [exists |-> TRUE, readable |-> TRUE, has_timestamp |-> TRUE,
                         has_response |-> TRUE, query |-> query,
                         response |-> response, timestamp |-> now]]
                ELSE cache
    /\ last_set' = IF wrote
                   THEN [last_set EXCEPT ![query] =
                           [set |-> TRUE, response |-> response, time |-> now]]
                   ELSE last_set
    /\ lastCall' = [op |-> "set_response", query |-> query, response |-> response]
    /\ UNCHANGED <<repo, query_log, threads, store, lexical, disk, watermark, chunked, now>>

\* a faulty variant: reading an entry never raises
ReadRaisesNever(data) == FALSE

\* cache.py lines 38-41: open, json.load or data['timestamp'] raises
ReadRaises(data) == ~data.readable \/ ~data.has_timestamp

\* cache.py line 47: data['response'] raises
ResponseRaises(data) == ~data.has_response

\* cache.py lines 29-51
get_response(query) ==
    LET cache_key == _hash_query(query)
        data == cache[cache_key]
    IN /\ Idle
       /\ IF ~data.exists
          THEN /\ lastCall' = [op |-> "get_response", query |-> query,
                               hit |-> FALSE, ret |-> None]
               /\ cache' = cache
          ELSE IF ReadRaises(data)
          THEN \* lines 49-51: the exception is logged
               /\ lastCall' = [op |-> "get_response", query |-> query,
                               hit |-> FALSE, ret |-> None]
               /\ cache' = cache
          ELSE IF Expired(data, now)
          THEN /\ lastCall' = [op |-> "get_response", query |-> query,
                               hit |-> FALSE, ret |-> None]
               /\ cache' = [cache EXCEPT ![cache_key] = NoEntry]
          ELSE IF ResponseRaises(data)
          THEN /\ lastCall' = [op |-> "get_response", query |-> query,
                               hit |-> FALSE, ret |-> None]
               /\ cache' = cache
          ELSE /\ lastCall' = [op |-> "get_response", query |-> query,
                               hit |-> TRUE, ret |-> data.response]
               /\ cache' = cache
       /\ UNCHANGED <<repo, query_log, threads, store, lexical, disk, watermark, last_set, chunked, now>>

\* cache.py lines 73-93
clear_expired ==
    /\ Idle
    /\ cache' = [key \in CacheKeys |->
                    IF cache[key].exists
                       /\ (ReadRaises(cache[key]) \/ Expired(cache[key], now))
                    THEN NoEntry ELSE cache[key]]
    /\ last_set' = [q \in CacheQueries |-> NotSet]
    /\ lastCall' = [op |-> "clear_expired"]
    /\ UNCHANGED <<repo, query_log, threads, store, lexical, disk, watermark, chunked, now>>

\* cache.py lines 95-102
clear_all ==
    /\ Idle
    /\ cache' = [key \in CacheKeys |-> NoEntry]
    /\ last_set' = [q \in CacheQueries |-> NotSet]
    /\ lastCall' = [op |-> "clear_all"]
    /\ UNCHANGED <<repo, query_log, threads, store, lexical, disk, watermark, chunked, now>>

\* time.time() moves on between calls
Tick ==
    /\ Idle
    /\ now < MaxNow
    /\ now' = now + 1
    /\ UNCHANGED <<repo, query_log, threads, store, lexical, disk, watermark, cache, chunked, last_set, lastCall>>

\* the entry file of a key is damaged from outside: its content is made
\* invalid, or the object loses its timestamp or its response
DamageEntry ==
    /\ Idle
    /\ \E key \in CacheKeys, part \in {"content", "timestamp", "response"} :
          /\ cache[key].exists
          /\ cache[key].readable
          /\ cache' = [cache EXCEPT ![key] =
                IF part = "content" THEN [@ EXCEPT !.readable = FALSE]
                ELSE IF part = "timestamp" THEN [@ EXCEPT !.has_timestamp = FALSE]
                ELSE [@ EXCEPT !.has_response = FALSE]]
    /\ UNCHANGED <<repo, query_log, threads, store, lexical, disk, watermark, last_set, chunked, now, lastCall>>

\* a set_response whose file cannot be opened for writing
SetResponseFailing ==
    Idle /\ \E query \in CacheQueries, response \in Responses :
                set_response(query, response, FALSE)

\* set_response calls whose write succeeds
SetResponseAny ==
    Idle /\ \E query \in CacheQueries, response \in Responses :
                set_response(query, response, TRUE)

GetResponseAny == Idle /\ \E query \in CacheQueries : get_response(query)

\* json.dump of the entry, as the characters written to the file: the text
\* of a longer response is longer
ResponseText(response) == IF response = "" THEN <<>> ELSE <<"r", "1">>
Serialize(data) ==
    <<"{", data.query>> \o ResponseText(data.response)
        \o <<ToString(data.timestamp), "}">>

\* a write of `text` at offset 0 of a file holding `old`: what lies beyond
\* the written text stays
Overlay(old, text) == text \o SubSeq(old, Len(text) + 1, Len(old))

\* a file that exists and whose text is no JSON object
Unreadable == [exists |-> TRUE, readable |-> FALSE, has_timestamp |-> FALSE,
               has_response |-> FALSE, query |-> None, response |-> None,
               timestamp |-> 0]

WrittenEntry(query, response, timestamp) ==
    [exists |-> TRUE, readable |-> TRUE, has_timestamp |-> TRUE,
     has_response |-> TRUE, query |-> query, response |-> response,
     timestamp |-> timestamp]

\* json.load of a file's text (cache.py line 39)
Parse(text) ==
    LET written == {e \in {WrittenEntry(q, r, t) :
                              q \in CacheQueries, r \in Responses, t \in 0..MaxNow} :
                       Serialize(e) = text}
    IN IF written = {} THEN Unreadable ELSE CHOOSE e \in written : TRUE

\* the text of an entry file.  A file just opened with 'w' is empty; with two
\* writers, a write lands on an empty file or on the text the other writer
\* wrote in full
Render(entry) ==
    IF entry.exists /\ entry.readable /\ entry.has_timestamp /\ entry.has_response
    THEN Serialize(entry) ELSE <<>>

\* cache.py lines 58-64 in a thread: the data is built and open(cache_file,
\* 'w') truncates the file
SetResponseOpen ==
    \E t \in Threads, query \in CacheQueries, response \in Responses :
        /\ threads[t].pc = "idle"
        /\ threads' = [threads EXCEPT ![t] =
                          [pc |-> "opened", query |-> query,
                           response |-> response, timestamp |-> now,
                           orphan |-> FALSE]]
        /\ cache' = [cache EXCEPT ![_hash_query(query)] = Unreadable]
        /\ UNCHANGED <<repo, query_log, store, lexical, disk, watermark, last_set, chunked, now, lastCall>>

\* cache.py lines 64-65 in a thread: json.dump into the buffer of the file
\* object, written at offset 0 when the with block closes the file
SetResponseWrite ==
    \E t \in Threads :
        LET call == threads[t]
            cache_key == _hash_query(call.query)
        IN /\ call.pc = "opened"
           /\ cache' = IF call.orphan
                       THEN \* the file was unlinked while open: the text goes
                            \* to a file that has no name any more
                            cache
                       ELSE [cache EXCEPT ![cache_key] =
                               Parse(Overlay(Render(cache[cache_key]), Serialize(call)))]
           /\ last_set' = [last_set EXCEPT ![call.query] =
                              [set |-> TRUE, response |-> call.response,
                               time |-> call.timestamp]]
           /\ threads' = [threads EXCEPT ![t].pc = "done"]
           /\ UNCHANGED <<repo, query_log, store, lexical, disk, watermark, chunked, now, lastCall>>

\* the caller has seen that both calls returned
SetResponseJoin ==
    /\ \A t \in Threads : threads[t].pc = "done"
    /\ threads' = [t \in Threads |-> NoThread]
    /\ UNCHANGED <<repo, query_log, store, lexical, disk, watermark, cache, last_set, chunked, now, lastCall>>

(***************************************************************************)
(* SmartChunker (chunker.py).  A text is the sequence of its characters.   *)
(* "M" stands for the marker AiPlayerbot, "I" for the comment              *)
(* "// Implementations:"; the sizes of ChunkingConfig are scaled down.     *)
(***************************************************************************)
chunk_size == 3
overlap == 2
min_chunk_size == 2
MaxText == 5

Newline == "\n"
IsSpace(c) == c \in {" ", Newline}

\* str.strip()
Strip(s) ==
    LET keep == {i \in DOMAIN s : ~IsSpace(s[i])}
    IN IF keep = {} THEN <<>>
       ELSE SubSeq(s, CHOOSE i \in keep : \A j \in keep : i <= j,
                      CHOOSE i \in keep : \A j \in keep : i >= j)

\* str.split and re.split: the pieces between the separators at `cuts`
CutAt(cuts, j) == CHOOSE c \in cuts : Cardinality({d \in cuts : d < c}) = j - 1

Split(s, cuts) ==
    [j \in 1..(Cardinality(cuts) + 1) |->
        SubSeq(s, IF j = 1 THEN 1 ELSE CutAt(cuts, j - 1) + 1,
                  IF j = Cardinality(cuts) + 1 THEN Len(s) ELSE CutAt(cuts, j) - 1)]

SplitLines(s) == Split(s, {i \in DOMAIN s : s[i] = Newline})

RECURSIVE Join(_, _)
\* sep.join(parts)
Join(parts, sep) ==
    IF Len(parts) = 0 THEN <<>>
    ELSE IF Len(parts) = 1 THEN parts[1]
    ELSE parts[1] \o sep \o Join(Tail(parts), sep)

RECURSIVE TotalLen(_)
TotalLen(parts) == IF Len(parts) = 0 THEN 0 ELSE Len(parts[1]) + TotalLen(Tail(parts))

RECURSIVE OverlapLines(_, _, _)
\* chunker.py lines 150-158: trailing lines of the chunk, from the last one
\* backwards, while their sizes stay below overlap
OverlapLines(current_chunk, j, overlap_lines) ==
    IF j = 0 THEN overlap_lines
    ELSE IF TotalLen(overlap_lines) + Len(current_chunk[j]) < overlap
         THEN OverlapLines(current_chunk, j - 1, <<current_chunk[j]>> \o overlap_lines)
         ELSE overlap_lines

RECURSIVE GenericLoop(_, _, _, _, _)
\* chunker.py lines 144-164
GenericLoop(lines, i, chunks_, current_chunk, current_size) ==
    IF i > Len(lines)
    THEN [chunks |-> chunks_, current_chunk |-> current_chunk]
    ELSE IF current_size + Len(lines[i]) > chunk_size /\ Len(current_chunk) > 0
         THEN LET overlap_lines == OverlapLines(current_chunk, Len(current_chunk), <<>>)
              IN GenericLoop(lines, i + 1,
                             Append(chunks_, Join(current_chunk, <<Newline>>)),
                             Append(overlap_lines, lines[i]),
                             TotalLen(overlap_lines) + Len(lines[i]))
         ELSE GenericLoop(lines, i + 1, chunks_, Append(current_chunk, lines[i]),
                          current_size + Len(lines[i]))

\* chunker.py lines 136-169
_chunk_generic(content) ==
    LET end == GenericLoop(SplitLines(content), 1, <<>>, <<>>, 0)
    IN IF Len(end.current_chunk) > 0
       THEN Append(end.chunks, Join(end.current_chunk, <<Newline>>))
       ELSE end.chunks

\* the lookahead #{1,6}\s of line 87 at position p
HeadingAt(s, p) ==
    \E n \in 1..6 :
        /\ p + n <= Len(s)
        /\ \A m \in 0..(n - 1) : s[p + m] = "#"
        /\ IsSpace(s[p + n])

\* line 87: re.split(r'\n(?=#{1,6}\s)', content)
Sections(content) ==
    Split(content, {i \in DOMAIN content : content[i] = Newline /\ HeadingAt(content, i + 1)})

RECURSIVE MarkdownLoop(_, _, _, _)
\* chunker.py lines 92-101
MarkdownLoop(sections, i, chunks_, current_chunk) ==
    IF i > Len(sections)
    THEN [chunks |-> chunks_, current_chunk |-> current_chunk]
    ELSE LET section == sections[i] IN
         IF Len(Strip(section)) = 0
         THEN MarkdownLoop(sections, i + 1, chunks_, current_chunk)
         ELSE IF Len(current_chunk) + Len(section) > chunk_size
         THEN MarkdownLoop(sections, i + 1,
                           IF Len(current_chunk) > 0
                           THEN Append(chunks_, Strip(current_chunk)) ELSE chunks_,
                           section)
         ELSE MarkdownLoop(sections, i + 1, chunks_,
                           IF Len(current_chunk) > 0
                           THEN current_chunk \o <<Newline, Newline>> \o section
                           ELSE section)

\* chunker.py lines 85-106
_chunk_markdown(content) ==
    LET end == MarkdownLoop(Sections(content), 1, <<>>, <<>>)
    IN IF Len(end.current_chunk) > 0
       THEN Append(end.chunks, Strip(end.current_chunk))
       ELSE end.chunks

\* str(None), which the f-strings of lines 117 and 127 give for no section
NoneText == <<"N", "o", "n", "e">>
NoSection == <<>>
SectionText(current_section) ==
    IF current_section = NoSection THEN NoneText ELSE current_section

\* line 115
IsSectionHeader(line) ==
    LET t == Strip(line) IN Len(t) > 0 /\ t[1] = "[" /\ t[Len(t)] = "]"

\* line 123
IsSetting(line) == LET t == Strip(line) IN Len(t) > 0 /\ t[1] # "#"

\* line 126
HasMarker(line) ==
    (\E i \in DOMAIN line : line[i] = "=") /\ (\E i \in DOMAIN line : line[i] = "M")

GroupedChunk(current_section, current_settings) ==
    current_section \o <<Newline>> \o Join(current_settings, <<Newline>>)

RECURSIVE ConfigLoop(_, _, _, _, _)
\* chunker.py lines 114-128
ConfigLoop(lines, i, chunks_, current_section, current_settings) ==
    IF i > Len(lines)
    THEN [chunks |-> chunks_, current_section |-> current_section,
          current_settings |-> current_settings]
    ELSE LET line == lines[i] IN
         IF IsSectionHeader(line)
         THEN ConfigLoop(lines, i + 1,
                         IF current_section # NoSection /\ Len(current_settings) > 0
                         THEN Append(chunks_, GroupedChunk(current_section, current_settings))
                         ELSE chunks_,
                         Strip(line), <<>>)
         ELSE IF IsSetting(line)
         THEN ConfigLoop(lines, i + 1,
                         IF HasMarker(line)
                         THEN Append(chunks_,
                                     SectionText(current_section) \o <<Newline>> \o line)
                         ELSE chunks_,
                         current_section, Append(current_settings, line))
         ELSE ConfigLoop(lines, i + 1, chunks_, current_section, current_settings)

\* chunker.py lines 108-134
_chunk_config(content) ==
    LET end == ConfigLoop(SplitLines(content), 1, <<>>, NoSection, <<>>)
    IN IF end.current_section # NoSection /\ Len(end.current_settings) > 0
       THEN Append(end.chunks, GroupedChunk(end.current_section, end.current_settings))
       ELSE end.chunks

\* What the regular expressions of _chunk_cpp find in the content: class
\* definitions, each with the implementations found for it, and functions.
\* They are modelled by what they can return, pieces of the content.
NoMatches == [classes |-> <<>>, functions |-> <<>>]

ImplementationsHeader == <<Newline, Newline, "I", Newline>>

\* lines 65-67
Combined(class) ==
    IF Len(class.implementations) > 0
    THEN class.class_def \o ImplementationsHeader
            \o Join(IF Len(class.implementations) > 3
                    THEN SubSeq(class.implementations, 1, 3)
                    ELSE class.implementations, <<Newline, Newline>>)
    ELSE class.class_def

\* Python's filter of a list, keeping the order
RECURSIVE Select(_, _)
Select(s, n) ==
    IF Len(s) = 0 THEN <<>>
    ELSE IF Len(s[1]) > n THEN <<s[1]>> \o Select(Tail(s), n)
    ELSE Select(Tail(s), n)

\* chunker.py lines 43-83
_chunk_cpp(content, matches) ==
    LET chunks_ == [i \in DOMAIN matches.classes |-> Combined(matches.classes[i])]
                     \o Select(matches.functions, min_chunk_size)
    IN IF Len(chunks_) = 0 THEN _chunk_generic(content) ELSE chunks_

\* chunker.py lines 18-27
RawChunks(content, file_type, matches) ==
    IF file_type \in {"cpp", "h"} THEN _chunk_cpp(content, matches)
    ELSE IF file_type = "md" THEN _chunk_markdown(content)
    ELSE IF file_type = "conf" THEN _chunk_config(content)
    ELSE _chunk_generic(content)

\* a faulty variant: chunks of any size are kept
TooSmallNever(chunk_content) == FALSE

\* line 32
TooSmall(chunk_content) == Len(Strip(chunk_content)) < min_chunk_size

RECURSIVE Enriched(_, _, _)
\* lines 30-39: chunk_index is the position among the raw chunks, from 0
Enriched(raw, i, metadata) ==
    IF i > Len(raw) THEN <<>>
    ELSE IF TooSmall(raw[i]) THEN Enriched(raw, i + 1, metadata)
    ELSE <<[content |-> raw[i], chunk_index |-> i - 1, metadata |-> metadata]>>
            \o Enriched(raw, i + 1, metadata)

\* dict.copy() of line 38: a new dict holding the same values, so the list
\* under 'tags' is the list of the document's metadata
DictCopy(metadata) == [key \in DOMAIN metadata |-> metadata[key]]

FileTypes == {"cpp", "h", "md", "conf", "txt"}
TagsRef == "tags_of_document"

\* nothing chunked yet
NoDocument ==
    [document |-> [type |-> "txt", module |-> Absent, tags |-> TagsRef],
     chunks |-> <<>>,
     lists |-> [ref \in {TagsRef} |-> <<>>]]

\* chunker.py lines 16-41, on a document as MetadataExtractor.extract tags it
\* (metadata_extractor.py lines 103-118: the tags hold at least the file type)
chunk_document(content, metadata, matches) ==
    /\ Idle
    /\ chunked' = [document |-> metadata,
                   chunks |-> Enriched(RawChunks(content, metadata.type, matches), 1,
                                       DictCopy(metadata)),
                   lists |-> [ref \in {TagsRef} |-> <<metadata.type>>]]
    /\ lastCall' = [op |-> "chunk_document", content |-> content, matches |-> matches,
                    raw |-> RawChunks(content, metadata.type, matches)]
    /\ UNCHANGED <<repo, query_log, threads, store, lexical, disk, watermark, cache, last_set, now>>

\* the holder of the chunks assigns to a key of one chunk's metadata
SetChunkModule ==
    /\ Idle
    /\ \E i \in DOMAIN chunked.chunks :
          /\ chunked.chunks[i].metadata.module = "x"
          /\ chunked' = [chunked EXCEPT !.chunks[i].metadata.module = "y"]
          /\ lastCall' = [op |-> "set_chunk_module", chunk |-> i]
    /\ UNCHANGED <<repo, query_log, threads, store, lexical, disk, watermark, cache, last_set, now>>

MaxTags == 2

\* the holder of the chunks appends to one chunk's metadata['tags']
AppendChunkTag ==
    /\ Idle
    /\ \E i \in DOMAIN chunked.chunks :
          LET ref == chunked.chunks[i].metadata.tags IN
          /\ Len(chunked.lists[ref]) < MaxTags
          /\ chunked' = [chunked EXCEPT !.lists[ref] = Append(@, "added")]
          /\ lastCall' = [op |-> "append_chunk_tag", chunk |-> i]
    /\ UNCHANGED <<repo, query_log, threads, store, lexical, disk, watermark, cache, last_set, now>>

TextsOver(alphabet, n) == UNION {[1..m -> alphabet] : m \in 0..n}

\* the pieces of a text
Slices(content) ==
    {SubSeq(content, a, b) : a \in 1..Len(content), b \in 1..Len(content)} \ {<<>>}

\* what the regular expressions can find in a text: at most one class with at
\* most one implementation, and at most one function
MatchesIn(content) ==
    LET classes == {<<>>} \cup
            {<<[class_def |-> d, implementations |-> m]>> :
                d \in Slices(content), m \in {<<>>} \cup {<<t>> : t \in Slices(content)}}
        functions == {<<>>} \cup {<<t>> : t \in Slices(content)}
    IN [classes : classes, functions : functions]

\* documents of every declared type
ChunkerInputs ==
    {[content |-> c, type |-> "md", matches |-> NoMatches] :
        c \in TextsOver({Newline, " ", "#", "a"}, MaxText)}
    \cup {[content |-> c, type |-> "txt", matches |-> NoMatches] :
        c \in TextsOver({Newline, " ", "a"}, MaxText)}
    \cup {[content |-> c, type |-> "conf", matches |-> NoMatches] :
        c \in TextsOver({Newline, " ", "[", "]", "=", "M", "#"}, MaxText)}
    \cup UNION {{[content |-> c, type |-> t, matches |-> m] :
                    m \in MatchesIn(c), t \in {"cpp", "h"}} :
                        c \in TextsOver({Newline, "a"}, MaxText - 2)}

\* chunk_document keeps no state: one document per run shows all it does
ChunkDocumentAny ==
    Idle /\ chunked = NoDocument /\ \E input \in ChunkerInputs :
                chunk_document(input.content,
                               [type |-> input.type, module |-> "x", tags |-> TagsRef],
                               input.matches)

\* plain-text documents whose chunks are then handled by their holder
ChunkPlainDocument ==
    Idle /\ \E content \in TextsOver({Newline, "a"}, MaxText) :
                chunk_document(content,
                               [type |-> "txt", module |-> "x", tags |-> TagsRef],
                               NoMatches)

(***************************************************************************)
(* Queries                                                                 *)
(***************************************************************************)
QueryCoords == Coords
Ks == {1, 2}
Filters == {Absent, "x"}

VectorSearchCall ==
    /\ Idle
    /\ \E q \in QueryCoords, k \in Ks, f \in Filters :
        /\ lastCall' = [op |-> "vector_search", q |-> q, k |-> k, f |-> f,
                        out |-> VectorSearch(q, k, f)]
        /\ UNCHANGED <<repo, query_log, threads, store, lexical, disk, watermark, cache, chunked, last_set, now>>

HybridSearchCall ==
    /\ Idle
    /\ \E q \in QueryCoords, bm \in ScoreProfiles, k \in Ks, a2 \in AlphaHalves, f \in Filters :
        /\ lastCall' = [op |-> "hybrid_search", q |-> q, bm |-> bm, k |-> k,
                        a2 |-> a2, f |-> f, out |-> HybridSearch(q, bm, k, a2, f)]
        /\ UNCHANGED <<repo, query_log, threads, store, lexical, disk, watermark, cache, chunked, last_set, now>>

(***************************************************************************)
(* VectorStore._matches_filters over metadata and filter dicts whose       *)
(* values are strings, lists of strings or booleans.  A value is held with *)
(* its Python type; a dict is a function on the keys it holds.             *)
(***************************************************************************)
FilterKeys == {"tags", "module"}
TagNames == {"combat", "pvp"}

Str(s) == [kind |-> "str", s |-> s, l |-> <<>>, b |-> FALSE]
List(l) == [kind |-> "list", s |-> "", l |-> l, b |-> FALSE]
Bool(b) == [kind |-> "bool", s |-> "", l |-> <<>>, b |-> b]

\* Python ==: values of different types are unequal
PyEq(a, b) == a = b

\* Python `x in lst`
PyIn(x, lst) == \E i \in DOMAIN lst.l : PyEq(Str(lst.l[i]), x)

\* vector_store.py lines 92-94: metadata[key] != value
Mismatch(stored, value) == ~PyEq(stored, value)

\* vector_store.py lines 83-94, for one key of the filters
KeyMatches(metadata, key, value) ==
    IF key \notin DOMAIN metadata THEN TRUE
    ELSE IF value.kind = "list" THEN PyIn(metadata[key], value)
    ELSE IF value.kind = "bool" THEN PyEq(metadata[key], value)
    ELSE ~Mismatch(metadata[key], value)

\* vector_store.py lines 80-96
_matches_filters(metadata, filters) ==
    \A key \in DOMAIN filters : KeyMatches(metadata, key, filters[key])

TagLists == {<<>>, <<"combat">>, <<"pvp">>, <<"combat", "pvp">>}
TagValues ==
    {Str(s) : s \in TagNames} \cup {List(l) : l \in TagLists}
        \cup {Bool(b) : b \in BOOLEAN}
ModuleValues == {Str(m) : m \in Modules}

\* dicts that hold 'tags', 'module', both or neither
Dicts ==
    UNION {{d \in [ks -> TagValues \cup ModuleValues] :
               /\ "tags" \in ks => d["tags"] \in TagValues
               /\ "module" \in ks => d["module"] \in ModuleValues} :
           ks \in SUBSET FilterKeys}

MatchesFiltersCall ==
    /\ Idle
    /\ \E metadata \in Dicts, filters \in Dicts :
          lastCall' = [op |-> "_matches_filters", metadata |-> metadata,
                       filters |-> filters,
                       ret |-> _matches_filters(metadata, filters)]
    /\ UNCHANGED <<repo, query_log, threads, store, lexical, disk, watermark, cache, chunked, last_set, now>>

(***************************************************************************)
(* RAGPipeline.query (pipeline.py lines 167-280) with the cache enabled.   *)
(* Retrieval and generation are calls whose outcome is given: they return  *)
(* or raise.  The call takes `dt` days of the clock.                       *)
(***************************************************************************)
MaxLog == 2
Outcomes == {"ok", "raises"}

\* cache.py lines 33-47 as query uses it: the response of a readable entry
\* that has not expired, None otherwise
CachedResponse(data, t) ==
    IF data.exists /\ ~ReadRaises(data) /\ ~Expired(data, t) /\ ~ResponseRaises(data)
    THEN data.response ELSE None

\* cache.py lines 41-44: get_response unlinks an entry it finds expired
AfterLookup(key, t) ==
    IF cache[key].exists /\ ~ReadRaises(cache[key]) /\ Expired(cache[key], t)
    THEN [cache EXCEPT ![key] = NoEntry] ELSE cache

\* pipeline.py line 182: `if cached_response:` is false for None and for ""
Truthy(response) == response # None /\ response # ""

\* monitor.py lines 46-55: one record appended to queries.jsonl
Record(question, num_chunks, elapsed, cache_hit, error) ==
    [query |-> question, num_chunks_retrieved |-> num_chunks,
     response_time_seconds |-> elapsed, cache_hit |-> cache_hit, error |-> error]

\* a faulty variant: a query that fails writes no record
ErrorNotLogged(log, question, elapsed, error) == log

\* pipeline.py lines 268-278
ErrorLogged(log, question, elapsed, error) ==
    Append(log, Record(question, 0, elapsed, FALSE, error))

query(question, use_cache, stream, retrieval, generation, response, dt) ==
    LET key == _hash_query(question)
        cached_response ==
            IF use_cache THEN CachedResponse(cache[key], now) ELSE None
        looked == IF use_cache THEN AfterLookup(key, now) ELSE cache
    IN /\ Idle
       /\ Len(query_log) < MaxLog
       /\ now + dt <= MaxNow
       /\ now' = now + dt
       /\ IF Truthy(cached_response)
          THEN \* lines 182-190
               /\ query_log' = Append(query_log, Record(question, 0, dt, TRUE, None))
               /\ cache' = looked
               /\ last_set' = last_set
               /\ lastCall' = [op |-> "query", question |-> question,
                               use_cache |-> use_cache, raised |-> FALSE,
                               ret |-> cached_response, error |-> None,
                               searches |-> 0, generations |-> 0]
          ELSE IF retrieval = "raises"
          THEN \* lines 198-211 raise, lines 268-280
               /\ query_log' = ErrorLogged(query_log, question, dt, "retrieval")
               /\ cache' = looked
               /\ last_set' = last_set
               /\ lastCall' = [op |-> "query", question |-> question,
                               use_cache |-> use_cache, raised |-> TRUE,
                               ret |-> None, error |-> "retrieval",
                               searches |-> 1, generations |-> 0]
          ELSE IF stream
          THEN \* lines 226-241: the generator is returned before it runs
               /\ query_log' = Append(query_log, Record(question, 1, dt, FALSE, None))
               /\ cache' = looked
               /\ last_set' = last_set
               /\ lastCall' = [op |-> "query", question |-> question,
                               use_cache |-> use_cache, raised |-> FALSE,
                               ret |-> "generator", error |-> None,
                               searches |-> 1, generations |-> 0]
          ELSE IF generation = "raises"
          THEN \* lines 243-247 raise, lines 268-280
               /\ query_log' = ErrorLogged(query_log, question, dt, "generation")
               /\ cache' = looked
               /\ last_set' = last_set
               /\ lastCall' = [op |-> "query", question |-> question,
                               use_cache |-> use_cache, raised |-> TRUE,
                               ret |-> None, error |-> "generation",
                               searches |-> 1, generations |-> 1]
          ELSE \* lines 249-266
               /\ query_log' = Append(query_log, Record(question, 1, dt, FALSE, None))
               /\ cache' = IF use_cache
                           THEN [looked EXCEPT ![key] =
                                    WrittenEntry(question, response, now + dt)]
                           ELSE looked
               /\ last_set' = IF use_cache
                              THEN [last_set EXCEPT ![question] =
                                      [set |-> TRUE, response |-> response,
                                       time |-> now + dt]]
                              ELSE last_set
               /\ lastCall' = [op |-> "query", question |-> question,
                               use_cache |-> use_cache, raised |-> FALSE,
                               ret |-> response, error |-> None,
                               searches |-> 1, generations |-> 1]
       /\ UNCHANGED <<repo, store, lexical, disk, watermark, chunked, threads>>

QueryAny ==
    Idle /\ \E question \in CacheQueries, use_cache \in BOOLEAN, stream \in BOOLEAN,
               retrieval \in Outcomes, generation \in Outcomes,
               response \in Responses, dt \in {0, 1} :
                query(question, use_cache, stream, retrieval, generation, response, dt)

(***************************************************************************)
(* A SmartChunker whose ChunkingConfig sets min_chunk_size above the       *)
(* length of a section header with one setting line, as the defaults do    *)
(* (100 characters), on key-value documents given line by line.            *)
(***************************************************************************)
LargeMinChunkSize == 6
MaxLines == 3

ConfigLines ==
    {<<"[", "]">>, <<"M", "=">>, <<"a", "=">>, <<"M">>, <<"#">>, <<>>}

ConfigDocuments ==
    {Join(lines, <<Newline>>) : lines \in SeqsUpTo(ConfigLines, MaxLines)}

RECURSIVE EnrichedOver(_, _, _, _)
\* chunker.py lines 30-39 with self.config.min_chunk_size = min_size
EnrichedOver(raw, i, metadata, min_size) ==
    IF i > Len(raw) THEN <<>>
    ELSE IF Len(Strip(raw[i])) < min_size
    THEN EnrichedOver(raw, i + 1, metadata, min_size)
    ELSE <<[content |-> raw[i], chunk_index |-> i - 1, metadata |-> metadata]>>
            \o EnrichedOver(raw, i + 1, metadata, min_size)

\* chunker.py lines 16-41 for a document of type 'conf'
ChunkConfigDocument ==
    /\ Idle
    /\ chunked = NoDocument
    /\ \E content \in ConfigDocuments :
         LET metadata == [type |-> "conf", module |-> "x", tags |-> TagsRef]
         IN /\ chunked' = [document |-> metadata,
                           chunks |-> EnrichedOver(_chunk_config(content), 1,
                                                   DictCopy(metadata), LargeMinChunkSize),
                           lists |-> [ref \in {TagsRef} |-> <<"conf">>]]
            /\ lastCall' = [op |-> "chunk_document", content |-> content,
                            matches |-> NoMatches, raw |-> _chunk_config(content)]
    /\ UNCHANGED <<repo, query_log, threads, store, lexical, disk, watermark, cache, last_set, now>>

(***************************************************************************)
(* IncrementalUpdater.update (build_index.py lines 29-92) statement by     *)
(* statement over a repository that receives commits while it runs: it     *)
(* lists the modified files with git log --since, processes them, and      *)
(* writes datetime.now() as the new update time at the end.                *)
(***************************************************************************)
Updater == 1
LookbackDays == 30

\* build_index.py lines 94-100: the time git log lists from
Since(w, t) == IF w.exists THEN w.time ELSE t - LookbackDays

\* build_index.py lines 102-129: git log --since lists the commits whose
\* time is not before `since`
ModifiedSince(commits, since) == {c \in commits : c >= since}

\* a commit that changes a relevant file of the corpus
Commit ==
    /\ Idle
    /\ now \notin repo.commits
    /\ repo' = [repo EXCEPT !.commits = @ \cup {now}]
    /\ UNCHANGED <<threads, store, lexical, disk, watermark, cache, last_set, chunked,
                   query_log, now, lastCall>>

\* build_index.py lines 32-41: the update time is read and the files are listed
UpdateList ==
    /\ Idle
    /\ bm25_built
    /\ threads[Updater].pc = "idle"
    /\ \E git \in {"ok", "git_error"} :
         LET modified_files == IF git = "ok"
                               THEN ModifiedSince(repo.commits, Since(watermark, now))
                               ELSE {}
         IN /\ repo' = [repo EXCEPT !.listed = @ \cup modified_files]
            /\ IF modified_files = {}
               THEN /\ lastCall' = [op |-> "update", changed |-> "none",
                                    raised |-> FALSE, ret |-> TRUE]
                    /\ UNCHANGED threads
               ELSE /\ threads' = [threads EXCEPT ![Updater] =
                                      [pc |-> "listed", modified_files |-> modified_files]]
                    /\ UNCHANGED lastCall
    /\ UNCHANGED <<store, lexical, disk, watermark, cache, last_set, chunked, query_log, now>>

\* build_index.py lines 49-92: the listed files are loaded and indexed, the
\* indexes are saved and the update time is written
UpdateProcess ==
    /\ Idle
    /\ threads[Updater].pc = "listed"
    /\ \E batch \in IndexBatches \cup {<<>>} :
         /\ Len(index) + Len(batch) <= MaxChunks
         /\ IF Len(batch) = 0
            THEN \* lines 61-63: no document could be loaded
                 /\ lastCall' = [op |-> "update", changed |-> "unloadable",
                                 raised |-> FALSE, ret |-> TRUE]
                 /\ UNCHANGED <<store, lexical, disk, watermark>>
            ELSE /\ index' = Extended(index, AddedVectors(batch))
                 /\ chunks' = Extended(chunks, AddedChunks(batch))
                 /\ metadata_index' = Extended(metadata_index, AddedMetadata(batch))
                 /\ dimension' = dimension
                 /\ bm25_built' = TRUE
                 /\ tokenized_corpus' = BuiltCorpus(chunks')
                 /\ disk' = Persisted(disk, index', chunks', metadata_index',
                                      tokenized_corpus', NoFailure)
                 /\ watermark' = SavedUpdateTime(watermark, NoFailure)
                 /\ lastCall' = [op |-> "update", changed |-> "loaded",
                                 raised |-> FALSE, ret |-> TRUE]
    /\ threads' = [threads EXCEPT ![Updater] = NoThread]
    /\ UNCHANGED <<repo, cache, last_set, chunked, query_log, now>>

\* build_index.py on one text of one module, before the updates
BuildIndexPlain == Idle /\ \E batch \in IndexBatches : build_index(batch, NoFailure)

\* time moves on while an update runs as it does between calls
Clock ==
    /\ now < MaxNow
    /\ now' = now + 1
    /\ UNCHANGED <<repo, threads, store, lexical, disk, watermark, cache, last_set,
                   chunked, query_log, lastCall>>

(***************************************************************************)
(* RAGCache.get_response (cache.py lines 29-51) statement by statement in  *)
(* a thread, next to a set_response of another thread.                     *)
(***************************************************************************)
IsGet(call) == "expired" \in DOMAIN call

GetCall(pc, q, expired, ret) ==
    [pc |-> pc, query |-> q, expired |-> expired, ret |-> ret]

\* cache.py lines 31-35: the existence test
GetResponseExists ==
    \E t \in Threads, q \in CacheQueries :
        /\ threads[t].pc = "idle"
        /\ threads' = [threads EXCEPT ![t] =
                          IF cache[_hash_query(q)].exists
                          THEN GetCall("found", q, FALSE, None)
                          ELSE GetCall("done", q, FALSE, None)]
        /\ UNCHANGED <<repo, query_log, store, lexical, disk, watermark, cache, last_set,
                       chunked, now, lastCall>>

\* cache.py lines 37-47: the file is read and the age of its entry is tested
GetResponseRead ==
    \E t \in Threads :
        LET call == threads[t]
            data == cache[_hash_query(call.query)]
        IN /\ call.pc = "found"
           /\ threads' = [threads EXCEPT ![t] =
                  IF ~data.exists \/ ReadRaises(data)
                  THEN GetCall("done", call.query, FALSE, None)
                  ELSE IF Expired(data, now)
                  THEN GetCall("expired", call.query, TRUE, None)
                  ELSE IF ResponseRaises(data)
                  THEN GetCall("done", call.query, FALSE, None)
                  ELSE GetCall("done", call.query, FALSE, data.response)]
           /\ UNCHANGED <<repo, query_log, store, lexical, disk, watermark, cache, last_set,
                          chunked, now, lastCall>>

\* cache.py lines 43-44: cache_file.unlink() removes the name of the file.
\* Where a file that a writer holds open cannot be removed, unlink raises and
\* the exception is logged (lines 49-51); elsewhere the writer is left with a
\* file that has no name.
GetResponseUnlink ==
    \E t \in Threads :
        LET call == threads[t]
            cache_key == _hash_query(call.query)
            IsWriter(u) == /\ threads[u].pc = "opened"
                           /\ _hash_query(threads[u].query) = cache_key
        IN /\ call.pc = "expired"
           /\ \/ /\ cache' = [cache EXCEPT ![cache_key] = NoEntry]
                 /\ threads' = [u \in Threads |->
                                   IF u = t THEN [call EXCEPT !.pc = "done"]
                                   ELSE IF IsWriter(u)
                                   THEN [threads[u] EXCEPT !.orphan = TRUE]
                                   ELSE threads[u]]
              \/ /\ \E u \in Threads : IsWriter(u)
                 /\ cache' = cache
                 /\ threads' = [threads EXCEPT ![t].pc = "done"]
           /\ UNCHANGED <<repo, query_log, store, lexical, disk, watermark, last_set,
                          chunked, now, lastCall>>

(***************************************************************************)
(* Specifications                                                          *)
(***************************************************************************)
NoWatermark == [exists |-> FALSE, time |-> 0]

InitAll ==
    /\ index = <<>>
    /\ chunks = <<>>
    /\ metadata_index = <<>>
    /\ dimension = DefaultDimension
    /\ bm25_built = FALSE
    /\ tokenized_corpus = <<>>
    /\ disk = EmptyDisk
    /\ watermark = NoWatermark
    /\ cache = [key \in CacheKeys |-> NoEntry]
    /\ last_set = [q \in CacheQueries |-> NotSet]
    /\ chunked = NoDocument
    /\ threads = [t \in Threads |-> NoThread]
    /\ query_log = <<>>
    /\ now = 0
    /\ repo = [commits |-> {}, listed |-> {}]
    /\ lastCall = NoCall

\* sequences of add_chunks calls on a fresh store
NextStore == AddChunksAny \/ Return
SpecStore == InitAll /\ [][NextStore]_vars

\* builds, updates and loads of the index directory, with failing writes
NextIndex ==
    BuildIndexAny \/ UpdateAny \/ load_index \/ Restart \/ Damage \/ Tick \/ Return
SpecIndex == InitAll /\ [][NextIndex]_vars

\* calls of the response cache as the clock moves on
NextCache == SetResponseAny \/ GetResponseAny \/ clear_expired \/ clear_all \/ Tick \/ Return
SpecCache == InitAll /\ [][NextCache]_vars

\* the response cache with entry files damaged from outside and failing writes
NextCacheFaults ==
    \/ SetResponseAny \/ SetResponseFailing \/ GetResponseAny \/ clear_expired
    \/ clear_all \/ DamageEntry \/ Tick \/ Return
SpecCacheFaults == InitAll /\ [][NextCacheFaults]_vars

\* chunk_document over documents of every type
NextChunker == ChunkDocumentAny \/ Return
SpecChunker == InitAll /\ [][NextChunker]_vars

\* chunks of a document in the hands of their holder
NextChunkHolder == ChunkPlainDocument \/ SetChunkModule \/ AppendChunkTag \/ Return
SpecChunkHolder == InitAll /\ [][NextChunkHolder]_vars

\* stores that are populated, saved, and loaded into newly constructed stores
NextRoundTrip ==
    AddProcessedChunks \/ save \/ Construct \/ load \/ Return
SpecRoundTrip == InitAll /\ [][NextRoundTrip]_vars

\* set_response calls of two threads, and get_response calls of the caller
NextCacheRace ==
    SetResponseOpen \/ SetResponseWrite \/ SetResponseJoin \/ GetResponseAny \/ Return
SpecCacheRace == InitAll /\ [][NextCacheRace]_vars

\* searches of the caller while a thread adds chunks
NextStoreThread ==
    AddChunksStart \/ AddChunksAppendChunk \/ AddChunksAppendMetadata
        \/ SearchObserves \/ Return
SpecStoreThread == InitAll /\ [][NextStoreThread]_vars

\* the filter predicate applied to metadata and filters of every shape
NextFilter == MatchesFiltersCall \/ Return
SpecFilter == InitAll /\ [][NextFilter]_vars

\* queries, answered from the cache or by retrieval and generation
NextQuery == QueryAny \/ Tick \/ Return
SpecQuery == InitAll /\ [][NextQuery]_vars

\* key-value documents chunked with a min_chunk_size in the proportion of the defaults
NextConfigChunker == ChunkConfigDocument \/ Return
SpecConfigChunker == InitAll /\ [][NextConfigChunker]_vars

\* updates of a built index while the corpus receives commits
NextUpdater == BuildIndexPlain \/ UpdateList \/ UpdateProcess \/ Commit \/ Clock \/ Return
SpecUpdater == InitAll /\ [][NextUpdater]_vars

\* a get_response and a set_response in threads of their own while time
\* passes, and get_response calls of the caller once both have completed
GetResponseAfter == (\A t \in Threads : threads[t].pc = "done") /\ GetResponseAny
NextCacheExpiry ==
    \/ SetResponseOpen \/ SetResponseWrite \/ SetResponseJoin
    \/ GetResponseExists \/ GetResponseRead \/ GetResponseUnlink
    \/ GetResponseAfter \/ Clock \/ Return
SpecCacheExpiry == InitAll /\ [][NextCacheExpiry]_vars

\* queries against indexes that build_index has built
NextSearch == BuildIndexOk \/ VectorSearchCall \/ HybridSearchCall \/ Return
SpecSearch == InitAll /\ [][NextSearch]_vars

(***************************************************************************)
(* Helpers of the properties                                               *)
(***************************************************************************)
IsVectorSearch == lastCall.op = "vector_search"
IsHybridSearch == lastCall.op = "hybrid_search"
Returned == ~lastCall.out.raised
Results == lastCall.out.results

Min(a, b) == IF a < b THEN a ELSE b
Positions == DOMAIN chunks
Passing(f) == {p \in Positions : f = Absent \/ metadata_index[p].module \in {f, Absent}}

\* the lexical score of the stored text at position p for the query of the
\* call, divided by the largest score of the corpus when that is positive
RawScore(p) == lastCall.bm[Tokenize(chunks[p].content)]
TopRawScore == CHOOSE m \in {RawScore(p) : p \in Positions} :
                  \A p \in Positions : RawScore(p) <= m
NormScore(p) == IF TopRawScore > 0 THEN (RawScore(p) * SimScale) \div TopRawScore
                ELSE RawScore(p) * SimScale
AboveFloor(p) == 10 * NormScore(p) > SimScale

SameChunk(r, p) == r.chunk = chunks[p] /\ r.metadata = metadata_index[p]
ChunkList(rs) == [i \in DOMAIN rs |-> <<rs[i].chunk, rs[i].metadata>>]

\* C1: after any sequence of add_chunks calls, returned or raised, the vector
\* index, chunks and metadata_index hold the same number of entries.
C1_ParallelLists ==
    Len(index) = Len(chunks) /\ Len(chunks) = Len(metadata_index)

\* the text of a chunk as the lexical index has to hold it
LowercasedWords(content) ==
    [i \in DOMAIN content |-> IF content[i] = "Spell" THEN "spell" ELSE content[i]]

\* C6: whenever a query can run (after build_index, after load_index returned
\* True, after update returned) the tokenized corpus has one entry per chunk
\* of the store, entry i being the tokenization of chunks[i].
C6_LexicalIndexAligned ==
    (lastCall.op \in {"build_index", "load_index", "update"}
        /\ ~lastCall.raised /\ lastCall.ret)
    => /\ bm25_built
       /\ Len(tokenized_corpus) = Len(chunks)
       /\ \A i \in DOMAIN chunks :
             tokenized_corpus[i] = LowercasedWords(chunks[i].content)

\* C8: load_index on a directory in which the vector-index file, the chunk
\* store, the metadata list or the manifest is missing or corrupt returns
\* False and leaves the vector index, chunks and metadata_index as they were.
C8_LoadAllOrNothing ==
    [][(Idle /\ lastCall'.op = "load_index"
          /\ \E a \in {"faiss", "chunks", "metadata", "info"} : disk[a].status # "ok")
        => /\ lastCall'.ret = FALSE
           /\ index' = index
           /\ chunks' = chunks
           /\ metadata_index' = metadata_index]_vars

\* C7: add_chunks given a batch in which a chunk has no embedding raises and
\* leaves the vector index, chunks and metadata_index as they were.
C7_MissingEmbeddingAborts ==
    [][(lastCall'.op = "add_chunks" /\ Idle
          /\ \E i \in DOMAIN lastCall'.batch : ~lastCall'.batch[i].has_embedding)
        => /\ lastCall'.raised
           /\ index' = index
           /\ chunks' = chunks
           /\ metadata_index' = metadata_index]_vars

\* add_chunks was called on a store that holds entries, with a batch whose
\* first chunk has an embedding and whose second has none, and raised
C7_Witness ==
    /\ lastCall.op = "add_chunks" /\ lastCall.raised
    /\ Len(lastCall.batch) = 2
    /\ lastCall.batch[1].has_embedding /\ lastCall.batch[1].has_metadata
    /\ ~lastCall.batch[2].has_embedding
    /\ Len(index) > 0 /\ Len(chunks) = Len(index)

\* C2: no result of a search called with filters = {'module': f} has a
\* metadata 'module' different from f, whether the result comes from the
\* vector index or only from the lexical index.
C2_FilterSoundness ==
    ((IsVectorSearch \/ IsHybridSearch) /\ lastCall.f # Absent /\ Returned)
        => \A i \in DOMAIN Results :
              Results[i].metadata.module \in {lastCall.f, Absent}

\* a filtered hybrid search returned a lexical-only result while a chunk of
\* another module scored above the noise floor
C2_Witness ==
    /\ IsHybridSearch /\ lastCall.f = "x" /\ Returned /\ bm25_built
    /\ \E i \in DOMAIN Results : ~Results[i].pad /\ Results[i].similarity = 0
    /\ \E p \in Positions : metadata_index[p].module = "y" /\ AboveFloor(p)

\* C3: with alpha = 1.0 the hybrid search returns the chunks of the vector
\* search with the same k and filters, in the same order.
C3_AlphaOneIsVectorRanking ==
    (IsHybridSearch /\ bm25_built /\ lastCall.a2 = 2)
        => LET v == VectorSearch(lastCall.q, lastCall.k, lastCall.f)
           IN /\ lastCall.out.raised = v.raised
              /\ ChunkList(Results) = ChunkList(v.results)

TextScore(r) ==
    LET p == CHOOSE p \in Positions : chunks[p].content = r.chunk.content
    IN NormScore(p)

C5_TopKStable ==
    (IsHybridSearch /\ bm25_built /\ Returned)
        => LET table == lastCall.out.table
               semantic == lastCall.out.semantic
               seeded(i) == \E s \in DOMAIN semantic :
                               FindChunkIndex(semantic[s].chunk) = table[i].idx
               first(i) == CHOOSE s \in DOMAIN semantic :
                              /\ FindChunkIndex(semantic[s].chunk) = table[i].idx
                              /\ \A t \in DOMAIN semantic :
                                    FindChunkIndex(semantic[t].chunk) = table[i].idx
                                        => s <= t
           IN /\ Len(Results) = Min(lastCall.k, Len(table))
              /\ \A i, j \in DOMAIN Results :
                    i < j => Results[i].combined_score >= Results[j].combined_score
              /\ \E pos \in [DOMAIN Results -> DOMAIN table] :
                    /\ \A i \in DOMAIN Results :
                          /\ Results[i].chunk = table[pos[i]].result.chunk
                          /\ Results[i].metadata = table[pos[i]].result.metadata
                          /\ Results[i].similarity = table[pos[i]].result.similarity
                          /\ Results[i].combined_score = ScoreKey(table[pos[i]])
                    /\ \A i, j \in DOMAIN Results :
                          i < j => /\ pos[i] # pos[j]
                                   /\ (Results[i].combined_score = Results[j].combined_score
                                          => pos[i] < pos[j])
                    /\ \A t \in DOMAIN table :
                          (\A i \in DOMAIN Results : pos[i] # t)
                              => \A i \in DOMAIN Results :
                                    \/ ScoreKey(table[t]) < Results[i].combined_score
                                    \/ /\ ScoreKey(table[t]) = Results[i].combined_score
                                       /\ pos[i] < t
              /\ \A i, j \in DOMAIN table :
                    i < j => \/ seeded(i) /\ ~seeded(j)
                             \/ seeded(i) /\ seeded(j) /\ first(i) < first(j)
                             \/ ~seeded(i) /\ ~seeded(j) /\ table[i].idx < table[j].idx

\* the fused table held more than k entries, a returned entry tied with an
\* entry that was left out, and a lexical-only entry was in the table
C5_Witness ==
    /\ IsHybridSearch /\ bm25_built /\ Returned
    /\ Len(lastCall.out.table) > lastCall.k
    /\ \E t \in DOMAIN lastCall.out.table :
          /\ ScoreKey(lastCall.out.table[t]) = Results[Len(Results)].combined_score
          /\ \E u \in DOMAIN lastCall.out.table :
                u < t /\ ScoreKey(lastCall.out.table[u]) = ScoreKey(lastCall.out.table[t])
    /\ \E t \in DOMAIN lastCall.out.table :
          ~lastCall.out.table[t].result.pad /\ lastCall.out.table[t].result.similarity = 0

\* C9: a get_response(q) that follows set_response(q, r), with no clear in
\* between and at most the TTL later, returns r: the latest set under q wins
\* and sets under other queries do not disturb it.
C9_SetThenGet ==
    (lastCall.op = "get_response"
        /\ last_set[lastCall.query].set
        /\ now - last_set[lastCall.query].time <= ttl_days)
    => /\ lastCall.hit
       /\ lastCall.ret = last_set[lastCall.query].response

\* a get of q returned the response of the second set under q, after a set
\* under the other query and a move of the clock
C9_Witness ==
    /\ lastCall.op = "get_response"
    /\ lastCall.hit
    /\ lastCall.ret = "r1"
    /\ last_set[lastCall.query].set
    /\ now > last_set[lastCall.query].time
    /\ \E other \in CacheQueries \ {lastCall.query} :
          /\ last_set[other].set
          /\ last_set[other].response # lastCall.ret
          /\ last_set[other].time >= last_set[lastCall.query].time

\* C10: a get_response(q) on an entry with now - timestamp > ttl returns
\* nothing and removes the entry in that call; on an entry of age at most ttl
\* it returns the stored response and leaves the entry in place; an absent
\* entry appears again only through set_response of its query.
C10_LazyStrictExpiry ==
    [][/\ (Idle /\ lastCall'.op = "get_response")
          => LET key == _hash_query(lastCall'.query)
                 entry == cache[key]
             IN /\ (entry.exists /\ entry.readable /\ now - entry.timestamp > ttl_days)
                   => /\ lastCall'.ret = None
                      /\ ~lastCall'.hit
                      /\ ~cache'[key].exists
                /\ (entry.exists /\ entry.readable /\ now - entry.timestamp <= ttl_days)
                   => /\ lastCall'.ret = entry.response
                      /\ lastCall'.hit
                      /\ cache'[key] = entry
       /\ \A key \in CacheKeys :
             (~cache[key].exists /\ cache'[key].exists)
             => /\ lastCall'.op = "set_response"
                /\ _hash_query(lastCall'.query) = key]_vars

\* a get found the entry of the latest set older than the TTL, returned
\* nothing and left no entry behind
C10_Witness ==
    /\ lastCall.op = "get_response"
    /\ last_set[lastCall.query].set
    /\ now - last_set[lastCall.query].time > ttl_days
    /\ ~lastCall.hit
    /\ ~cache[_hash_query(lastCall.query)].exists

\* C11: get_response on a key whose entry is unreadable or malformed (invalid
\* content, no timestamp, no response) returns nothing without a hit, as it
\* does for an absent key, and returns to the caller.
C11_MalformedEntryIsMiss ==
    [][(Idle /\ lastCall'.op = "get_response")
        => LET entry == cache[_hash_query(lastCall'.query)]
           IN (\/ ~entry.exists
               \/ ~entry.readable
               \/ ~entry.has_timestamp
               \/ ~entry.has_response)
              => /\ lastCall'.ret = None
                 /\ ~lastCall'.hit]_vars

\* a get found an entry that is younger than the TTL and malformed, returned
\* nothing and left the file where it was
C11_Witness ==
    /\ lastCall.op = "get_response"
    /\ ~lastCall.hit
    /\ LET entry == cache[_hash_query(lastCall.query)]
       IN /\ entry.exists
          /\ now - entry.timestamp <= ttl_days
          /\ (~entry.readable \/ ~entry.has_timestamp \/ ~entry.has_response)

\* C12: the watermark changes only in an update that appended to the store,
\* rebuilt the lexical index over the new chunk list and persisted all five
\* artifacts of the new state; an update that raises keeps the watermark.
C12_WatermarkLast ==
    [][/\ (watermark' # watermark)
          => /\ lastCall'.op = "update"
             /\ ~lastCall'.raised
             /\ Len(index') > Len(index)
             /\ Len(chunks') > Len(chunks)
             /\ Len(metadata_index') > Len(metadata_index)
             /\ bm25_built'
             /\ Len(tokenized_corpus') = Len(chunks')
             /\ disk'["faiss"] = [status |-> "ok", data |-> index']
             /\ disk'["chunks"] = [status |-> "ok", data |-> chunks']
             /\ disk'["metadata"] = [status |-> "ok", data |-> metadata_index']
             /\ disk'["info"].status = "ok"
             /\ disk'["bm25"] = [status |-> "ok", data |-> tokenized_corpus']
             /\ watermark' = [exists |-> TRUE, time |-> now]
       /\ (Idle /\ lastCall'.op = "update" /\ lastCall'.raised)
          => watermark' = watermark]_vars

\* an update failed while persisting, later than the update that wrote the
\* watermark, and the watermark still holds the earlier time
C12_Witness ==
    /\ lastCall.op = "update"
    /\ lastCall.raised
    /\ watermark.exists
    /\ watermark.time < now
    /\ ~DiskSettled

\* C13: an update whose list of changed files is empty, because nothing
\* changed or because git ended with an error, returns without raising and
\* leaves the store, the lexical index, the index directory and the
\* watermark as they were.
C13_NoChangesNoOp ==
    [][(Idle /\ lastCall'.op = "update" /\ lastCall'.changed \in {"none", "git_error"})
        => /\ ~lastCall'.raised
           /\ index' = index
           /\ chunks' = chunks
           /\ metadata_index' = metadata_index
           /\ bm25_built' = bm25_built
           /\ tokenized_corpus' = tokenized_corpus
           /\ disk' = disk
           /\ watermark' = watermark]_vars

\* an update found git failing over a loaded index with a watermark, and
\* returned
C13_Witness ==
    /\ lastCall.op = "update"
    /\ lastCall.changed = "git_error"
    /\ ~lastCall.raised
    /\ Len(chunks) > 0
    /\ watermark.exists

\* C14: every chunk that chunk_document returns, for every type and content,
\* has at least min_chunk_size characters once stripped.
C14_MinChunkSize ==
    \A i \in DOMAIN chunked.chunks :
        LET text == chunked.chunks[i].content
            inner == {p \in DOMAIN text : text[p] \notin {" ", "\n"}}
        IN \E first \in inner, last \in inner : last - first + 1 >= min_chunk_size

\* chunk_document dropped a raw chunk that was too small and returned a later
\* one: the kept chunk's index is beyond the number of chunks before it
C14_Witness ==
    /\ lastCall.op = "chunk_document"
    /\ \E i \in DOMAIN chunked.chunks : chunked.chunks[i].chunk_index > i - 1

\* the metadata of a chunk or of the document as its holder reads it
MetadataView(c, metadata) ==
    [type |-> metadata.type, module |-> metadata.module, tags |-> c.lists[metadata.tags]]

\* C16: a change made to one chunk's metadata, be it an assignment to a key or
\* an append to its tags, changes neither the metadata of a sibling chunk nor
\* the metadata of the document.
C16_MetadataIndependent ==
    [][(Idle /\ lastCall'.op \in {"set_chunk_module", "append_chunk_tag"})
        => /\ MetadataView(chunked', chunked'.document)
                = MetadataView(chunked, chunked.document)
           /\ \A j \in DOMAIN chunked.chunks :
                 j # lastCall'.chunk
                 => MetadataView(chunked', chunked'.chunks[j].metadata)
                        = MetadataView(chunked, chunked.chunks[j].metadata)]_vars

\* C15: load into a newly constructed store, of a directory that save wrote
\* for a populated store, gives the embeddings, chunks and metadata_index of
\* the saved store, and get_statistics() of the loaded store is that of the
\* saved one.
C15_SaveLoadRoundTrip ==
    [][(/\ Idle
        /\ lastCall'.op = "load"
        /\ index = <<>> /\ chunks = <<>> /\ metadata_index = <<>>
        /\ \A a \in {"faiss", "chunks", "metadata", "info"} : disk[a].status = "ok"
        /\ Len(disk["chunks"].data) > 0)
       => /\ ~lastCall'.raised
          /\ index' = disk["faiss"].data
          /\ chunks' = disk["chunks"].data
          /\ metadata_index' = disk["metadata"].data
          /\ get_statistics(chunks', metadata_index', dimension')
                = get_statistics(disk["chunks"].data, disk["metadata"].data,
                                 disk["info"].data.dimension)]_vars

\* C17: once two set_response calls for the same query that ran at the same
\* time have both completed, the entry holds the response of one of the two
\* calls, and a get_response that follows returns it: no mixture, no miss.
C17_LastWriteWins ==
    [][\A q \in CacheQueries :
          (\A t \in Threads : threads'[t].pc = "done" /\ threads'[t].query = q)
          => LET entry == cache'[_hash_query(q)]
             IN /\ entry.exists /\ entry.readable /\ entry.has_response
                /\ entry.response \in {threads'[t].response : t \in Threads}
                /\ (Idle /\ lastCall'.op = "get_response" /\ lastCall'.query = q)
                      => lastCall'.hit /\ lastCall'.ret = entry.response]_vars

\* C18: a search that sees the index, chunks and metadata_index with unequal
\* lengths runs while an add_chunks call is under way or after one has raised
\* part-way: between add_chunks calls that ran to completion every search sees
\* equal lengths.  The witness is a search that sees unequal lengths in the
\* middle of an add_chunks call.
C18_SearchBetweenAdds ==
    (lastCall.op = "search"
        /\ ~(lastCall.ntotal = lastCall.len_chunks
                /\ lastCall.len_chunks = lastCall.len_metadata))
    => lastCall.add_chunks # "idle"

C18_Witness ==
    /\ lastCall.op = "search"
    /\ lastCall.add_chunks \in {"copy", "metadata"}
    /\ lastCall.ntotal > lastCall.len_chunks
    /\ threads[AddThread].pc = "idle"
    /\ Len(index) = Len(chunks) /\ Len(chunks) = Len(metadata_index)

\* C19: on a store of N vectors, search(q, k) without filters returns
\* min(k, N) results, each for a stored position of its own, by
\* non-decreasing distance, and no position left out is nearer than one
\* returned; so it does when k > N and when the store is empty.
C19_NearestK ==
    (IsVectorSearch /\ lastCall.f = Absent)
    => /\ Returned
       /\ Len(Results) = (IF lastCall.k < Len(index) THEN lastCall.k ELSE Len(index))
       /\ \E pos \in [DOMAIN Results -> DOMAIN index] :
            /\ \A i, j \in DOMAIN Results : i # j => pos[i] # pos[j]
            /\ \A i \in DOMAIN Results :
                  /\ Results[i].chunk = chunks[pos[i]]
                  /\ Results[i].metadata = metadata_index[pos[i]]
                  /\ Results[i].score = SquaredDistance(index[pos[i]], lastCall.q)
            /\ \A i, j \in DOMAIN Results :
                  i < j => Results[i].score <= Results[j].score
            /\ \A p \in DOMAIN index :
                  (\A i \in DOMAIN Results : pos[i] # p)
                  => \A i \in DOMAIN Results :
                        Results[i].score <= SquaredDistance(index[p], lastCall.q)

\* C20: search(q, k, filters) returns, by distance, the first k entries that
\* pass the filter among the 3k stored vectors nearest to q, and nothing
\* else; it returns fewer than k when fewer entries of that pool pass.
C20_FilteredPool ==
    (IsVectorSearch /\ lastCall.f # Absent)
    => /\ Returned
       /\ Len(Results) <= lastCall.k
       /\ \E pool \in SUBSET DOMAIN index :
            /\ Cardinality(pool) = Min(3 * lastCall.k, Len(index))
            /\ \A p \in pool, o \in DOMAIN index \ pool :
                  SquaredDistance(index[p], lastCall.q)
                     <= SquaredDistance(index[o], lastCall.q)
            /\ \E pos \in [DOMAIN Results -> pool] :
                 /\ \A i, j \in DOMAIN Results : i # j => pos[i] # pos[j]
                 /\ \A i \in DOMAIN Results :
                       /\ Results[i].chunk = chunks[pos[i]]
                       /\ Results[i].metadata = metadata_index[pos[i]]
                       /\ Results[i].score = SquaredDistance(index[pos[i]], lastCall.q)
                       /\ MatchesFilters(metadata_index[pos[i]], lastCall.f)
                 /\ \A i, j \in DOMAIN Results :
                       i < j => Results[i].score <= Results[j].score
                 /\ \A p \in pool :
                       (/\ MatchesFilters(metadata_index[p], lastCall.f)
                        /\ \A i \in DOMAIN Results : pos[i] # p)
                       => /\ Len(Results) = lastCall.k
                          /\ \A i \in DOMAIN Results :
                                Results[i].score
                                   <= SquaredDistance(index[p], lastCall.q)

\* C21: when the metadata field named by a filter key holds a list, the
\* chunk passes that key if and only if the filter value is a member of the
\* stored list.
C21_ListMembership ==
    (/\ lastCall.op = "_matches_filters"
     /\ DOMAIN lastCall.filters = {"tags"}
     /\ "tags" \in DOMAIN lastCall.metadata
     /\ lastCall.metadata["tags"].kind = "list")
    => (lastCall.ret <=> PyIn(lastCall.filters["tags"], lastCall.metadata["tags"]))

\* the slots of the faiss result that a vector search for k results returns,
\* in order: each with the label faiss gave and its distance
SemanticSlots(q, k, f) ==
    LET found == FaissSearch(index, q, SearchK(k, f))
        passes(s) == f = Absent \/ MatchesFilters(PyGet(metadata_index, s.idx), f)
    IN Take(SelectSeq(found, passes), k)

\* the corpus position a slot's chunk was read from (label -1 reads the last)
SlotPosition(s) == IF s.idx < 0 THEN Len(chunks) ELSE s.idx + 1
SlotSimilarity(s) == IF s.pad THEN 0 ELSE Similarity(s.distance)

\* C22: in the fused table, every position the vector search returned has
\* score alpha * similarity + (1 - alpha) * normalized lexical score of that
\* position, with a similarity the vector search reported for it; a position
\* it did not return is in the table exactly when its normalized lexical
\* score exceeds the noise floor and its metadata passes the filters, with
\* score (1 - alpha) * normalized lexical score.
C22_FusedScores ==
    (IsHybridSearch /\ bm25_built /\ Returned)
    => LET slots == SemanticSlots(lastCall.q, 2 * lastCall.k, lastCall.f)
           table == lastCall.out.table
           a2 == lastCall.a2
           returned == {SlotPosition(slots[i]) : i \in DOMAIN slots}
       IN \A p \in Positions :
            IF p \in returned
            THEN \E e \in DOMAIN table, i \in DOMAIN slots :
                    /\ table[e].idx = p - 1
                    /\ SlotPosition(slots[i]) = p
                    /\ table[e].score = a2 * SlotSimilarity(slots[i])
                                           + (2 - a2) * NormScore(p)
            ELSE /\ (\E e \in DOMAIN table : table[e].idx = p - 1)
                       <=> (AboveFloor(p) /\ p \in Passing(lastCall.f))
                 /\ \A e \in DOMAIN table :
                       table[e].idx = p - 1
                          => table[e].score = (2 - a2) * NormScore(p)

\* C27: every chunk the vector search for 2k candidates returned has an entry
\* of its own in the fused table, keyed by the position it was read from and
\* carrying its similarity and metadata; so it is when stored chunks have
\* the same content and when the store holds fewer than 2k vectors.
C27_NoCandidateLost ==
    (IsHybridSearch /\ bm25_built /\ Returned)
    => LET slots == SemanticSlots(lastCall.q, 2 * lastCall.k, lastCall.f)
           table == lastCall.out.table
       IN \E entry \in [DOMAIN slots -> DOMAIN table] :
            /\ \A i, j \in DOMAIN slots : i # j => entry[i] # entry[j]
            /\ \A i \in DOMAIN slots :
                 LET e == table[entry[i]]
                     p == SlotPosition(slots[i])
                 IN /\ e.idx = p - 1
                    /\ e.result.similarity = SlotSimilarity(slots[i])
                    /\ e.result.metadata = metadata_index[p]

NonBlankSections(content) ==
    SelectSeq(Sections(content), LAMBDA section : Len(Strip(section)) > 0)

\* the sections from..to joined as one chunk
PackedChunk(sections, from, to) ==
    Strip(Join(SubSeq(sections, from, to), <<Newline, Newline>>))

\* the raw chunks pack the sections in order, each section whole in one chunk
PacksInOrder(raw, sections) ==
    \E ends \in SUBSET (1..Len(sections)) :
        /\ Cardinality(ends) = Len(raw)
        /\ Len(sections) > 0 => Len(sections) \in ends
        /\ \A j \in DOMAIN raw :
              LET to == CutAt(ends, j)
                  from == IF j = 1 THEN 1 ELSE CutAt(ends, j - 1) + 1
              IN /\ raw[j] = PackedChunk(sections, from, to)
                 /\ to > from => Len(raw[j]) <= chunk_size

\* C24: the chunks of a markup document pack its non-blank sections in
\* document order, each section whole in exactly one chunk, and a chunk built
\* from two or more sections has at most chunk_size characters.
C24_MarkdownPacking ==
    (lastCall.op = "chunk_document" /\ chunked.document.type = "md")
    => PacksInOrder(lastCall.raw, NonBlankSections(lastCall.content))

\* the first r lines of `next` are the last r lines of `prev`
CarriesRun(prev, next, r) ==
    /\ r <= Len(prev) /\ r <= Len(next)
    /\ SubSeq(next, 1, r) = SubSeq(prev, Len(prev) - r + 1, Len(prev))

\* C25: in generic chunking every chunk after the first begins with a run of
\* the trailing lines of the chunk before it, and the run holds at least
\* overlap characters whenever that chunk does; every line of the input is in
\* some chunk.
C25_GenericOverlap ==
    (lastCall.op = "chunk_document" /\ chunked.document.type = "txt")
    => LET raw == lastCall.raw
           lines == SplitLines(lastCall.content)
       IN /\ \A j \in 2..Len(raw) :
                LET prev == SplitLines(raw[j - 1])
                    next == SplitLines(raw[j])
                IN \E r \in 0..Len(next) :
                      /\ CarriesRun(prev, next, r)
                      /\ Len(raw[j - 1]) >= overlap
                            => Len(Join(SubSeq(next, 1, r), <<Newline>>)) >= overlap
          /\ \A i \in DOMAIN lines :
                \E j \in DOMAIN raw : \E p \in DOMAIN SplitLines(raw[j]) :
                    SplitLines(raw[j])[p] = lines[i]

\* the header line of the section that line i of a config document is in, or 0
HeaderOf(lines, i) ==
    LET before == {h \in 1..(i - 1) : IsSectionHeader(lines[h])}
    IN IF before = {} THEN 0 ELSE CHOOSE h \in before : \A g \in before : g <= h

\* the setting lines of the section whose header is line h
SettingsOf(lines, h) ==
    SelectSeq([i \in DOMAIN lines |->
                  IF i > h /\ HeaderOf(lines, i) = h /\ ~IsSectionHeader(lines[i])
                     /\ IsSetting(lines[i])
                  THEN lines[i] ELSE <<>>],
              LAMBDA line : Len(line) > 0)

IsMarkerLine(line) ==
    IsSetting(line) /\ ~IsSectionHeader(line) /\ \E p \in DOMAIN line : line[p] = "M"

\* C26: every non-comment line of a config document that holds the marker is
\* in the chunks chunk_document returns twice, in the grouped chunk of its
\* section and as a chunk of its section header and that line alone; comment
\* lines and blank lines are in no chunk.
C26_MarkerLinesTwice ==
    (lastCall.op = "chunk_document" /\ chunked.document.type = "conf")
    => LET lines == SplitLines(lastCall.content)
           out == chunked.chunks
       IN /\ \A i \in DOMAIN lines :
                IsMarkerLine(lines[i])
                => LET h == HeaderOf(lines, i)
                   IN /\ h # 0
                      /\ \E c, g \in DOMAIN out :
                            /\ c # g
                            /\ out[c].content = Strip(lines[h]) \o <<Newline>> \o lines[i]
                            /\ out[g].content
                                  = GroupedChunk(Strip(lines[h]), SettingsOf(lines, h))
          /\ \A c \in DOMAIN out :
                \A p \in DOMAIN SplitLines(out[c].content) :
                    LET line == Strip(SplitLines(out[c].content)[p])
                    IN Len(line) > 0 /\ line[1] # "#"

\* C28: no change is skipped across runs: a commit that no update has listed
\* is still within what the next update lists, also when it was made after a
\* running update listed the files and before that update wrote its time.
C28_NoChangeSkipped ==
    \A c \in repo.commits :
        c \in repo.listed \/ c \in ModifiedSince(repo.commits, Since(watermark, now))

\* s is the beginning of t
IsPrefix(s, t) == Len(s) <= Len(t) /\ \A i \in DOMAIN s : s[i] = t[i]

\* C29: update only appends: the vectors, chunks and metadata the store held
\* before an update run are, unchanged, the beginning of what it holds after
\* the run, and the number of chunks does not go down.
C29_UpdateOnlyAppends ==
    [][(Idle /\ lastCall'.op = "update")
        => /\ IsPrefix(index, index')
           /\ IsPrefix(chunks, chunks')
           /\ IsPrefix(metadata_index, metadata_index')
           /\ Len(chunks') >= Len(chunks)]_vars

\* an update indexed a file again over a store that held its chunks: the
\* earlier chunk and the new chunk of equal content are both in the store
C29_Witness ==
    /\ lastCall.op = "update"
    /\ lastCall.changed = "loaded"
    /\ ~lastCall.raised
    /\ Len(chunks) > MaxBatch
    /\ \E i, j \in DOMAIN chunks : i < j /\ chunks[i] = chunks[j]
    /\ Len(index) = Len(chunks)
    /\ Len(metadata_index) = Len(chunks)

\* C30: a fresh cache write survives a concurrent expiry: when a
\* get_response(q) that found an expired entry and a set_response(q, r) have
\* both completed, the entry set_response wrote is in the cache while it is
\* fresh, and a get_response(q) that follows returns r.
C30_FreshWriteSurvives ==
    \A g, s \in Threads :
        (/\ threads[g].pc = "done" /\ threads[s].pc = "done"
         /\ IsGet(threads[g]) /\ ~IsGet(threads[s])
         /\ threads[g].expired
         /\ threads[g].query = threads[s].query
         /\ ~Expired(threads[s], now))
        => /\ cache[_hash_query(threads[s].query)]
                = WrittenEntry(threads[s].query, threads[s].response,
                               threads[s].timestamp)
           /\ (lastCall.op = "get_response" /\ lastCall.query = threads[s].query)
                => lastCall.hit /\ lastCall.ret = threads[s].response

====
